---- MODULE Spec2Model ----
(***************************************************************************)
(* A model of the rule engine of the Aggravation board game: the board     *)
(* constants, the dice, the legal-move generator of the TurnSetup phase,   *)
(* the human player's click and move handlers and the ProcessMove phase.   *)
(***************************************************************************)
EXTENDS Integers, Sequences, FiniteSets, TLC

(***************************************************************************)
(* Bounds of the model.                                                    *)
(***************************************************************************)
\* marbles owned by each player
NumMarbles == 2

(***************************************************************************)
(* constants.rs                                                            *)
(***************************************************************************)
START_INDEX == 0
CENTER_INDEX == 53
FIRST_HOME_INDEX == 48
LAST_HOME_INDEX == 52
CENTER_ENTRANCE_INDEXES == {5, 17, 29}
CENTER_EXIT_INDEX == 41

\* BOARD[i + 1] is the cell of track index i
BOARD ==
  << <<-6, 1>>, <<-5, 1>>, <<-4, 1>>, <<-3, 1>>, <<-2, 1>>,
     <<-1, 1>>,
     <<-1, 2>>, <<-1, 3>>, <<-1, 4>>, <<-1, 5>>, <<-1, 6>>,
     <<0, 6>>,
     <<1, 6>>, <<1, 5>>, <<1, 4>>, <<1, 3>>, <<1, 2>>,
     <<1, 1>>,
     <<2, 1>>, <<3, 1>>, <<4, 1>>, <<5, 1>>, <<6, 1>>,
     <<6, 0>>,
     <<6, -1>>, <<5, -1>>, <<4, -1>>, <<3, -1>>, <<2, -1>>,
     <<1, -1>>,
     <<1, -2>>, <<1, -3>>, <<1, -4>>, <<1, -5>>, <<1, -6>>,
     <<0, -6>>,
     <<-1, -6>>, <<-1, -5>>, <<-1, -4>>, <<-1, -3>>, <<-1, -2>>,
     <<-1, -1>>,
     <<-2, -1>>, <<-3, -1>>, <<-4, -1>>, <<-5, -1>>, <<-6, -1>>,
     <<-6, 0>>,
     <<-5, 0>>, <<-4, 0>>, <<-3, 0>>, <<-2, 0>>, <<-1, 0>>,
     <<0, 0>> >>

\* BOARD.len(): the index of a marble that is in its base
BASE == Len(BOARD)

(***************************************************************************)
(* Players and their frames.                                               *)
(***************************************************************************)
Players == {"Red", "Green", "Blue", "Yellow"}

\* quarter turns, clockwise, of a colour's frame
Turns(p) ==
  CASE p = "Red" -> 0
    [] p = "Green" -> 1
    [] p = "Blue" -> 2
    [] p = "Yellow" -> 3

\* the mutant turns a cell counter-clockwise
RECURSIVE RotateCounterClockwise(_, _)
RotateCounterClockwise(n, c) ==
  IF n = 0 THEN c ELSE RotateCounterClockwise(n - 1, <<-c[2], c[1]>>)

RECURSIVE Rotate(_, _)
Rotate(n, c) == IF n = 0 THEN c ELSE Rotate(n - 1, <<c[2], -c[1]>>)

\* Player::rotate_coords
RotateCoords(p, c) == Rotate(Turns(p), c)

\* the mutant does not turn the second player's cell into the shared frame
IsSameIndexOneFrame(p1, i1, p2, i2) ==
  /\ i1 < BASE
  /\ i2 < BASE
  /\ RotateCoords(p1, BOARD[i1 + 1]) = BOARD[i2 + 1]

\* Player::is_same_index
IsSameIndex(p1, i1, p2, i2) ==
  /\ i1 < BASE
  /\ i2 < BASE
  /\ RotateCoords(p1, BOARD[i1 + 1]) = RotateCoords(p2, BOARD[i2 + 1])

Entities == 1..NumMarbles

(***************************************************************************)
(* resources.rs: Dice.  A face is 1..6, or None once it is used.           *)
(***************************************************************************)
None == 0
Faces == 1..6

\* Dice::new
DiceNew(one, two) ==
  [one |-> one, two |-> two, doubles |-> (one = two), multiplier |-> 1]

\* Dice::is_empty
IsEmpty(d) == d.one = None /\ d.two = None

\* the mutant keeps the multiplier when the dice are used up
UseDieKeepsMultiplier(d, which) ==
  CASE which = "One" -> [d EXCEPT !.one = None]
    [] which = "Two" -> [d EXCEPT !.two = None]
    [] which = "Both" -> [d EXCEPT !.one = None, !.two = None]
    [] which = "Neither" -> d

\* Dice::use_die
UseDie(d, which) ==
  LET used == CASE which = "One" -> [d EXCEPT !.one = None]
                [] which = "Two" -> [d EXCEPT !.two = None]
                [] which = "Both" -> [d EXCEPT !.one = None, !.two = None]
                [] which = "Neither" -> d
  IN IF IsEmpty(used) THEN [used EXCEPT !.multiplier = 1] ELSE used

(***************************************************************************)
(* turn_setup.rs: the legal-move generator.  A candidate is                *)
(* <<entity, path, which>>, a legal move <<entity, destination, which>>.   *)
(***************************************************************************)
WhichDie == <<"One", "Two", "Both", "Neither">>

\* the derived order of the enum WhichDie
WhichRank(w) == CHOOSE i \in 1..4 : WhichDie[i] = w

\* start..=end collected into a Vec
Range(start, end) == [i \in 1..(end + 1 - start) |-> start + i - 1]

Last(path) == path[Len(path)]

InHome(i) == i >= FIRST_HOME_INDEX /\ i <= LAST_HOME_INDEX

\* the mutant tests the end itself, not the index before it
EnterCenterPathAtEnd(start, end) ==
  IF end \in CENTER_ENTRANCE_INDEXES
    THEN {Append(Range(start, end - 1), CENTER_INDEX)}
    ELSE {}

\* enter_center_path: the Option is a set of no path or one path
EnterCenterPath(start, end) ==
  IF end - 1 \in CENTER_ENTRANCE_INDEXES
    THEN {Append(Range(start, end - 1), CENTER_INDEX)}
    ELSE {}

\* the mutant's second branch builds the path of the same move differently
BaseExitRulesTwoPaths(d, e) ==
  LET viaOne ==
        IF d.one = 1 \/ d.one = 6
          THEN {<<e, <<START_INDEX>>, "One">>} \cup
               (IF d.two # None
                  THEN LET dest == START_INDEX + d.two * d.multiplier
                       IN {<<e, Range(START_INDEX, dest), "Both">>} \cup
                          {<<e, p, "Both">> : p \in EnterCenterPath(START_INDEX, dest)}
                  ELSE {})
          ELSE {}
      viaTwo ==
        IF d.two = 1 \/ d.two = 6
          THEN {<<e, <<START_INDEX>>, "Two">>} \cup
               (IF d.one # None
                  THEN LET dest == START_INDEX + d.one * d.multiplier
                       IN {<<e, Range(START_INDEX + 1, dest), "Both">>} \cup
                          {<<e, p, "Both">> : p \in EnterCenterPath(START_INDEX, dest)}
                  ELSE {})
          ELSE {}
  IN viaOne \cup viaTwo

\* base_exit_rules
BaseExitRules(d, e) ==
  LET viaOne ==
        IF d.one = 1 \/ d.one = 6
          THEN {<<e, <<START_INDEX>>, "One">>} \cup
               (IF d.two # None
                  THEN LET dest == START_INDEX + d.two * d.multiplier
                       IN {<<e, Range(START_INDEX, dest), "Both">>} \cup
                          {<<e, p, "Both">> : p \in EnterCenterPath(START_INDEX, dest)}
                  ELSE {})
          ELSE {}
      viaTwo ==
        IF d.two = 1 \/ d.two = 6
          THEN {<<e, <<START_INDEX>>, "Two">>} \cup
               (IF d.one # None
                  THEN LET dest == START_INDEX + d.one * d.multiplier
                       IN {<<e, Range(START_INDEX, dest), "Both">>} \cup
                          {<<e, p, "Both">> : p \in EnterCenterPath(START_INDEX, dest)}
                  ELSE {})
          ELSE {}
  IN viaOne \cup viaTwo

\* center_exit_rules
CenterExitRules(d, e) ==
  CASE d.one = 1 /\ d.two = 1 ->
         {<<e, <<CENTER_EXIT_INDEX>>, "One">>,
          <<e, <<CENTER_EXIT_INDEX>>, "Two">>,
          <<e, <<CENTER_EXIT_INDEX, CENTER_EXIT_INDEX + d.multiplier>>, "Both">>}
    [] d.one = 1 /\ d.two # None /\ d.two # 1 ->
         {<<e, <<CENTER_EXIT_INDEX>>, "One">>,
          <<e, Range(CENTER_EXIT_INDEX, CENTER_EXIT_INDEX + d.two * d.multiplier), "Both">>}
    [] d.one # None /\ d.one # 1 /\ d.two = 1 ->
         {<<e, <<CENTER_EXIT_INDEX>>, "Two">>,
          <<e, Range(CENTER_EXIT_INDEX, CENTER_EXIT_INDEX + d.one * d.multiplier), "Both">>}
    [] d.one = 1 /\ d.two = None -> {<<e, <<CENTER_EXIT_INDEX>>, "One">>}
    [] d.one = None /\ d.two = 1 -> {<<e, <<CENTER_EXIT_INDEX>>, "Two">>}
    [] OTHER -> {}

\* the mutant does not look for home-row indexes on the path
BasicKeepAnyPath(index, path) ==
  LET dest == Last(path)
  IN \/ dest <= LAST_HOME_INDEX
     \/ /\ dest = CENTER_INDEX
        /\ index # LAST_HOME_INDEX

\* the filter of basic_rules: the moves that make sense
BasicKeep(index, path) ==
  LET dest == Last(path)
  IN \/ dest <= LAST_HOME_INDEX
     \/ /\ dest = CENTER_INDEX
        /\ index # LAST_HOME_INDEX
        /\ ~ \E i \in 1..Len(path) : InHome(path[i])

\* basic_rules, for a marble on the ring or in the home row; it is called
\* only with a die face present
BasicRules(d, e, index) ==
  LET step(n) == Range(index + 1, index + n * d.multiplier)
      basic_moves ==
        CASE d.one # None /\ d.two # None ->
               {<<e, step(d.one), "One">>,
                <<e, step(d.two), "Two">>,
                <<e, step(d.one + d.two), "Both">>} \cup
               {<<e, p, "Both">> :
                  p \in EnterCenterPath(index, index + (d.one + d.two) * d.multiplier)}
          [] d.one # None /\ d.two = None -> {<<e, step(d.one), "One">>}
          [] d.one = None /\ d.two # None -> {<<e, step(d.two), "Two">>}
  IN {m \in basic_moves : BasicKeep(index, m[2])}

\* the mutant lets the marbles that are home already run too
HomeRunMovesAll(ms) ==
  LET open_home_indexes ==
        {i \in FIRST_HOME_INDEX..LAST_HOME_INDEX : ~ \E e \in DOMAIN ms : ms[e] = i}
  IN {<<e, <<i>>, "Neither">> : e \in DOMAIN ms, i \in open_home_indexes}

\* the home-run moves: every open home index, for every marble not yet home
HomeRunMoves(ms) ==
  LET open_home_indexes ==
        {i \in FIRST_HOME_INDEX..LAST_HOME_INDEX : ~ \E e \in DOMAIN ms : ms[e] = i}
  IN {<<e, <<i>>, "Neither">> : e \in {x \in DOMAIN ms : ~InHome(ms[x])},
                                 i \in open_home_indexes}

\* the candidates of one marble, by where it stands
DiceMoves(d, e, index) ==
  IF index = BASE THEN BaseExitRules(d, e)
  ELSE IF index = CENTER_INDEX THEN CenterExitRules(d, e)
  ELSE BasicRules(d, e, index)

\* the BTreeSet possible_moves of calc_possible_moves, before the filter
Candidates(d, ms, status) ==
  (IF status.home_run THEN HomeRunMoves(ms) ELSE {}) \cup
  (IF ~IsEmpty(d) THEN UNION {DiceMoves(d, e, ms[e]) : e \in DOMAIN ms} ELSE {})

\* the order of Vec<usize>: lexicographic
PathLess(p, q) ==
  \E i \in 1..(Len(p) + 1) :
    /\ \A j \in 1..(i - 1) : j <= Len(q) /\ p[j] = q[j]
    /\ \/ i = Len(p) + 1 /\ Len(q) >= i
       \/ i <= Len(p) /\ i <= Len(q) /\ p[i] < q[i]

\* the order of (Entity, Vec<usize>, WhichDie) in the BTreeSet
MoveLess(a, b) ==
  \/ a[1] < b[1]
  \/ a[1] = b[1] /\ PathLess(a[2], b[2])
  \/ a[1] = b[1] /\ a[2] = b[2] /\ WhichRank(a[3]) < WhichRank(b[3])

\* BTreeSet::into_iter: the elements in ascending order
RECURSIVE IntoIter(_)
IntoIter(S) ==
  IF S = {} THEN <<>>
  ELSE LET m == CHOOSE x \in S : \A y \in S \ {x} : MoveLess(x, y)
       IN <<m>> \o IntoIter(S \ {m})

\* the mutant looks along the whole path even while self-jump is active
InTheWayAlways(ms, status, move) ==
  \E o \in DOMAIN ms \ {move[1]} : \E i \in 1..Len(move[2]) : ms[o] = move[2][i]

\* the mutant finds no marble in the way
InTheWayNever(ms, status, move) == FALSE

\* the closure of find(): another marble of the player in the way of the move
InTheWay(ms, status, move) ==
  \E o \in DOMAIN ms \ {move[1]} :
    IF status.jump_self_turns > 0
      THEN ms[o] = Last(move[2])
      ELSE \E i \in 1..Len(move[2]) : ms[o] = move[2][i]

\* the mutant keeps the first move of each marble to each destination only
FilterMovesOnePerDest(cands, ms, status) ==
  LET kept == SelectSeq(IntoIter(cands), LAMBDA m : ~InTheWay(ms, status, m))
      first == {k \in 1..Len(kept) :
                  ~ \E j \in 1..(k - 1) :
                      kept[j][1] = kept[k][1] /\ Last(kept[j][2]) = Last(kept[k][2])}
      nth(n) == CHOOSE k \in first : Cardinality({j \in first : j <= k}) = n
  IN [n \in 1..Cardinality(first) |->
        <<kept[nth(n)][1], Last(kept[nth(n)][2]), kept[nth(n)][3]>>]

\* the filter_map of calc_possible_moves: the legal moves, in order
FilterMoves(cands, ms, status) ==
  LET kept == SelectSeq(IntoIter(cands), LAMBDA m : ~InTheWay(ms, status, m))
  IN [k \in 1..Len(kept) |-> <<kept[k][1], Last(kept[k][2]), kept[k][3]>>]

\* CurrentPlayerData::get_moves
GetMoves(moves, marble) ==
  LET own == SelectSeq(moves, LAMBDA m : m[1] = marble)
  IN [k \in 1..Len(own) |-> <<own[k][2], own[k][3]>>]

\* calc_possible_moves: the value given to current_player_data.possible_moves
CalcPossibleMoves(d, ms, status) == FilterMoves(Candidates(d, ms, status), ms, status)

(***************************************************************************)
(* The state.                                                              *)
(***************************************************************************)
VARIABLES
  state,            \* the current GameState
  player,           \* current_player_data.player
  human_player,     \* HumanPlayer.color
  marbles,          \* Marble.index of every marble of every player
  dice,             \* DiceData.dice
  power_up_status,  \* PlayerData.power_up_status of every player
  candidates,       \* the BTreeSet that calc_possible_moves last built
  possible_moves,   \* current_player_data.possible_moves
  selected_marble,  \* the marble that carries SelectedMarble, or None
  move_events,      \* the MoveEvent mailbox
  moving,           \* the marbles <<player, entity>> that carry Moving
  power_bars,       \* the PowerBar of every player
  power_events,     \* the PowerEvent buffer
  power_events_read,\* whether handle_power_events has read the buffer
  power_up_events,  \* the GeneratePowerUpEvent buffer
  players,          \* the PlayerData of every player, but for its power_up_status
  activate_events,  \* the ActivatePowerUpEvent buffer
  current_player_data, \* CurrentPlayerData: the selection of the acting player
  button_state,     \* the ButtonState of a button
  mouse,            \* the mouse in the frame: the left button and the cursor
  action_events     \* the ActionEvents that mouse_watcher sent in the frame

vars == <<state, player, human_player, marbles, dice, power_up_status,
          candidates, possible_moves, selected_marble, move_events, moving,
          power_bars, power_events, power_events_read, power_up_events,
          players, activate_events, current_player_data,
          button_state, mouse, action_events>>

\* what the power economy owns
powerVars == <<power_bars, power_events, power_events_read, power_up_events,
               players, activate_events>>

\* CurrentPlayerData::new: no possible move, nothing selected, nothing moved.
\* An Option<Entity> is an entity or None, an Option<MarbleMove> is <<>> or
\* <<move>>.
CurrentPlayerDataNew ==
  [possible_moves |-> <<>>, selected_move |-> <<>>, selected_marble |-> None,
   moved_marble |-> None]

\* what a button and the mouse own
buttonVars == <<button_state, mouse, action_events>>

NumButtons == 2

\* the buttons, and the places of the cursor: place b is in the bounds of
\* button b and of no other button, place 0 is in the bounds of no button
ButtonIds == 1..NumButtons
Positions == 0..NumButtons

\* the buttons as they are spawned, the left button up and the cursor not yet
\* seen.  An Option<Vec2> is <<>> or <<position>>.
ButtonInit ==
  /\ button_state = [b \in ButtonIds |-> "NotHovered"]
  /\ mouse = [pressed |-> FALSE, just_pressed |-> FALSE, just_released |-> FALSE,
              moved |-> <<>>, cursor |-> <<>>]
  /\ action_events = {}

\* PowerBar::new
PowerBarNew == [power |-> 0, power_up_count |-> 0]

\* PlayerData::default: no move, no empty turn, no power, multiplier 1.0 and
\* no power-up
PlayerDataNew ==
  [turn_move_count |-> 0, consecutive_empty_turns |-> 0, power |-> 0,
   multiplier |-> 1, power_ups |-> <<>>]

\* the power economy before any event: empty bars and empty buffers
PowerInit ==
  /\ power_bars = [p \in Players |-> PowerBarNew]
  /\ power_events = <<>>
  /\ power_events_read = TRUE
  /\ power_up_events = <<>>
  /\ players = [p \in Players |-> PlayerDataNew]
  /\ activate_events = <<>>

\* every system has read the events sent to it
Drained == power_events_read /\ power_up_events = <<>> /\ activate_events = <<>>

\* PowerUpStatus, with its two timed counters and two one-shot flags
Status(jump, run) ==
  [evade_capture_turns |-> 0, jump_self_turns |-> jump,
   capture_nearest |-> FALSE, home_run |-> run]

\* the value jump_self() gives the counter
JumpSelfTurns == 3

\* the value evade_capture() gives the counter
EvadeCaptureTurns == 3

\* the player whose frame is a quarter turn further
NextOf(p) ==
  CASE p = "Red" -> "Green"
    [] p = "Green" -> "Blue"
    [] p = "Blue" -> "Yellow"
    [] p = "Yellow" -> "Red"

\* the indexes of a player's marbles: those listed, the others in the base
Place(indexes) == [e \in Entities |-> IF e <= Len(indexes) THEN indexes[e] ELSE BASE]

\* no two marbles of a player on one cell, except in the base
Apart(ms) == \A e, o \in DOMAIN ms : e # o /\ ms[e] = ms[o] => ms[e] = BASE

(***************************************************************************)
(* The positions a game is started from: the acting player's marbles, the  *)
(* marbles of the next player (each in its owner's frame) and the acting   *)
(* player's self-jump counter and home-run flag.                           *)
(***************************************************************************)
StartLayouts ==
  { [own |-> <<BASE, BASE>>, opp |-> <<6>>, jump |-> 0, run |-> FALSE],
    [own |-> <<CENTER_INDEX, 42>>, opp |-> <<BASE>>, jump |-> 0, run |-> FALSE],
    [own |-> <<43, 50>>, opp |-> <<BASE>>, jump |-> 0, run |-> TRUE],
    [own |-> <<3, 29>>, opp |-> <<43, CENTER_INDEX>>, jump |-> JumpSelfTurns, run |-> FALSE],
    [own |-> <<47, 51>>, opp |-> <<38>>, jump |-> 0, run |-> FALSE],
    [own |-> <<40, START_INDEX>>, opp |-> <<30>>, jump |-> JumpSelfTurns, run |-> TRUE] }

StartPlayers == {"Red", "Green"}

Init ==
  /\ state = "TurnSetup"
  /\ player \in StartPlayers
  /\ human_player \in StartPlayers
  /\ \E l \in StartLayouts :
       /\ marbles = [p \in Players |->
                       IF p = player THEN Place(l.own)
                       ELSE IF p = NextOf(player) THEN Place(l.opp)
                       ELSE Place(<<>>)]
       /\ power_up_status = [p \in Players |->
                               IF p = player THEN Status(l.jump, l.run)
                               ELSE Status(0, FALSE)]
  /\ \E a \in Faces, b \in Faces, m \in {1, 2} :
       dice = [DiceNew(a, b) EXCEPT !.multiplier = m]
  /\ candidates = {}
  /\ possible_moves = <<>>
  /\ selected_marble = None
  /\ move_events = <<>>
  /\ moving = {}
  /\ PowerInit
  /\ current_player_data = CurrentPlayerDataNew
  /\ ButtonInit

(***************************************************************************)
(* TurnSetup: calc_possible_moves, then turn_setup_complete.               *)
(***************************************************************************)
\* the mutant hands every turn to the human player
TurnSetupCompleteHuman(human, acting) == "HumanTurn"

\* turn_setup_complete: the state it sets
TurnSetupComplete(human, acting) ==
  IF human = acting THEN "HumanTurn" ELSE "ComputerTurn"

TurnSetup ==
  /\ state = "TurnSetup"
  /\ candidates' = Candidates(dice, marbles[player], power_up_status[player])
  /\ possible_moves' = CalcPossibleMoves(dice, marbles[player], power_up_status[player])
  /\ state' = TurnSetupComplete(human_player, player)
  /\ UNCHANGED <<player, human_player, marbles, dice, power_up_status,
                 selected_marble, move_events, moving>>
  /\ UNCHANGED powerVars
  /\ UNCHANGED current_player_data
  /\ UNCHANGED buttonVars

(***************************************************************************)
(* HumanTurn: interpret_click_event, move_event_handler and                *)
(* execute_button_actions.                                                 *)
(***************************************************************************)
\* the cells of the board in every colour's frame
ClickCells == {RotateCoords(p, BOARD[i]) : p \in Players, i \in 1..Len(BOARD)}

\* a click falls on one of the acting player's marbles or on a cell
Clicks == {<<"marble", e>> : e \in Entities} \cup {<<"cell", c>> : c \in ClickCells}

\* where a marble of the acting player is drawn
MarbleAt(e, c) ==
  /\ marbles[player][e] < BASE
  /\ RotateCoords(player, BOARD[marbles[player][e] + 1]) = c

\* BOARD.into_iter().position(..): the indexes whose rotated cell is the click
ClickedBoardIndex(p, c) == {i \in 0..(Len(BOARD) - 1) : RotateCoords(p, BOARD[i + 1]) = c}

\* the mutant looks for the move among the moves of every marble
FindMoveAnyMarble(moves, marble, hits) ==
  LET all == [k \in 1..Len(moves) |-> <<moves[k][2], moves[k][3]>>]
      found == SelectSeq(all, LAMBDA m : m[1] \in hits)
  IN IF Len(found) > 0 THEN <<Head(found)>> ELSE <<>>

\* get_moves(marble).into_iter().find(..): the first move to the clicked index
FindMove(moves, marble, hits) ==
  LET found == SelectSeq(GetMoves(moves, marble), LAMBDA m : m[1] \in hits)
  IN IF Len(found) > 0 THEN <<Head(found)>> ELSE <<>>

InterpretClickEvent ==
  /\ state = "HumanTurn"
  /\ move_events = <<>>
  /\ Drained
  /\ \E click \in Clicks :
       /\ click[1] = "cell" => ~ \E e \in Entities : MarbleAt(e, click[2])
       /\ IF click[1] = "marble"
            THEN /\ selected_marble' = click[2]
                 /\ UNCHANGED move_events
            ELSE IF selected_marble # None
              THEN LET selected_move ==
                         FindMove(possible_moves, selected_marble,
                                  ClickedBoardIndex(player, click[2]))
                   IN IF selected_move # <<>>
                        THEN /\ move_events' = selected_move
                             /\ UNCHANGED selected_marble
                        ELSE /\ selected_marble' = None
                             /\ UNCHANGED move_events
              ELSE UNCHANGED <<selected_marble, move_events>>
  /\ UNCHANGED <<state, player, human_player, marbles, dice, power_up_status,
                 candidates, possible_moves, moving>>
  /\ UNCHANGED powerVars
  /\ UNCHANGED current_player_data
  /\ UNCHANGED buttonVars

MoveEventHandler ==
  /\ state = "HumanTurn"
  /\ move_events # <<>>
  /\ selected_marble # None
  /\ LET idx == move_events[1][1]
         which == move_events[1][2]
     IN /\ marbles' = [marbles EXCEPT ![player][selected_marble] = idx]
        /\ dice' = UseDie(dice, which)
  /\ move_events' = <<>>
  /\ moving' = moving \cup {<<player, selected_marble>>}
  /\ state' = "WaitForAnimation"
  /\ UNCHANGED <<player, human_player, power_up_status, candidates,
                 possible_moves, selected_marble>>
  /\ UNCHANGED powerVars
  /\ UNCHANGED current_player_data
  /\ UNCHANGED buttonVars

\* the Done button
ExecuteButtonActions ==
  /\ state = "HumanTurn"
  /\ move_events = <<>>
  /\ Drained
  /\ state' = IF dice.doubles THEN "DiceRoll" ELSE "NextPlayer"
  /\ UNCHANGED <<player, human_player, marbles, dice, power_up_status,
                 candidates, possible_moves, selected_marble, move_events, moving>>
  /\ UNCHANGED powerVars
  /\ UNCHANGED current_player_data
  /\ UNCHANGED buttonVars

(***************************************************************************)
(* ComputerTurn: the computer's policy picks one of the legal moves and    *)
(* applies it as move_event_handler does; with no legal move its turn ends *)
(* as the Done button ends the human's.                                    *)
(***************************************************************************)
ComputerTurn ==
  /\ state = "ComputerTurn"
  /\ IF possible_moves = <<>>
       THEN /\ state' = IF dice.doubles THEN "DiceRoll" ELSE "NextPlayer"
            /\ UNCHANGED <<marbles, dice, selected_marble, moving>>
       ELSE \E k \in DOMAIN possible_moves :
              LET m == possible_moves[k]
              IN /\ selected_marble' = m[1]
                 /\ marbles' = [marbles EXCEPT ![player][m[1]] = m[2]]
                 /\ dice' = UseDie(dice, m[3])
                 /\ moving' = moving \cup {<<player, m[1]>>}
                 /\ state' = "WaitForAnimation"
  /\ UNCHANGED <<player, human_player, power_up_status, candidates,
                 possible_moves, move_events>>
  /\ UNCHANGED powerVars
  /\ UNCHANGED current_player_data
  /\ UNCHANGED buttonVars

(***************************************************************************)
(* WaitForAnimation ends when the animation of the move is done; a marble  *)
(* loses Moving when its animation is done.                                *)
(***************************************************************************)
AnimationDone ==
  /\ state = "WaitForAnimation"
  /\ state' = "ProcessMove"
  /\ moving' = {}
  /\ UNCHANGED <<player, human_player, marbles, dice, power_up_status,
                 candidates, possible_moves, selected_marble, move_events>>
  /\ UNCHANGED powerVars
  /\ UNCHANGED current_player_data
  /\ UNCHANGED buttonVars

\* the animation of a captured marble back to its origin is done
ReturnAnimationDone ==
  /\ state # "WaitForAnimation"
  /\ moving # {}
  /\ moving' = {}
  /\ UNCHANGED <<state, player, human_player, marbles, dice, power_up_status,
                 candidates, possible_moves, selected_marble, move_events>>
  /\ UNCHANGED powerVars
  /\ UNCHANGED current_player_data
  /\ UNCHANGED buttonVars

(***************************************************************************)
(* ProcessMove: check_for_capture, check_for_winner and                    *)
(* clear_selected_marble.                                                  *)
(***************************************************************************)
\* the mutant scans the opponent marbles on the ring only
CapturableOnRing(ms, p, index) ==
  {<<q, e>> \in (Players \ {p}) \X Entities :
     /\ ms[q][e] < FIRST_HOME_INDEX
     /\ IsSameIndex(p, index, q, ms[q][e])}

\* the opponent marbles that the find() of check_for_capture can return
Capturable(ms, p, index) ==
  {<<q, e>> \in (Players \ {p}) \X Entities :
     /\ ms[q][e] < FIRST_HOME_INDEX \/ ms[q][e] = CENTER_INDEX
     /\ IsSameIndex(p, index, q, ms[q][e])}

\* the mutant asks for another roll whenever both faces are consumed
NextStateRollAgain(ms, d) ==
  IF \E e \in DOMAIN ms : ~InHome(ms[e])
    THEN CASE (d.one # None /\ d.two = None) \/ (d.one = None /\ d.two # None) -> "TurnSetup"
           [] d.one = None /\ d.two = None -> "DiceRoll"
           [] OTHER -> "Panic"
    ELSE "GameEnd"

\* check_for_winner: the state it sets
NextState(ms, d) ==
  IF \E e \in DOMAIN ms : ~InHome(ms[e])
    THEN CASE (d.one # None /\ d.two = None) \/ (d.one = None /\ d.two # None) -> "TurnSetup"
           [] d.one = None /\ d.two = None -> IF d.doubles THEN "DiceRoll" ELSE "NextPlayer"
           [] OTHER -> "Panic"
    ELSE "GameEnd"

ProcessMove ==
  /\ state = "ProcessMove"
  /\ selected_marble # None
  /\ LET cur == marbles[player][selected_marble]
         hit == Capturable(marbles, player, cur)
     IN IF InHome(cur) \/ hit = {}
          THEN UNCHANGED <<marbles, moving>>
          ELSE \E c \in hit :
                 /\ marbles' = [marbles EXCEPT ![c[1]][c[2]] = BASE]
                 /\ moving' = moving \cup {c}
  /\ state' = NextState(marbles[player], dice)
  /\ selected_marble' = None
  /\ UNCHANGED <<player, human_player, dice, power_up_status, candidates,
                 possible_moves, move_events>>
  /\ UNCHANGED powerVars
  /\ UNCHANGED current_player_data
  /\ UNCHANGED buttonVars

Next ==
  \/ TurnSetup
  \/ InterpretClickEvent
  \/ MoveEventHandler
  \/ ExecuteButtonActions
  \/ ComputerTurn
  \/ AnimationDone
  \/ ReturnAnimationDone
  \/ ProcessMove

Spec == Init /\ [][Next]_vars

(***************************************************************************)
(* The move generator on its own: every start of one marble, the other     *)
(* marbles of the player on the cells of OtherStarts, every state of the   *)
(* dice and of the two statuses the generator reads.                       *)
(***************************************************************************)
OtherStarts == {BASE, START_INDEX, 42, 50}

InitGen ==
  /\ state = "TurnSetup"
  /\ player = "Red"
  /\ human_player = "Red"
  /\ \E i \in 0..BASE, o \in [Entities \ {1} -> OtherStarts] :
       LET ms == [e \in Entities |-> IF e = 1 THEN i ELSE o[e]]
       IN /\ Apart(ms)
          /\ \A e, f \in Entities \ {1} : e < f => ms[e] >= ms[f]
          /\ marbles = [p \in Players |-> IF p = player THEN ms ELSE Place(<<>>)]
  /\ \E a \in Faces \cup {None}, b \in Faces \cup {None}, m \in {1, 2}, dbl \in BOOLEAN :
       /\ a = None /\ b = None => m = 1
       /\ a # None /\ b # None => dbl = (a = b)
       /\ dice = [one |-> a, two |-> b, doubles |-> dbl, multiplier |-> m]
  /\ \E j \in {0, JumpSelfTurns}, h \in BOOLEAN :
       power_up_status = [p \in Players |->
                            IF p = player THEN Status(j, h) ELSE Status(0, FALSE)]
  /\ candidates = {}
  /\ possible_moves = <<>>
  /\ selected_marble = None
  /\ move_events = <<>>
  /\ moving = {}
  /\ PowerInit
  /\ current_player_data = CurrentPlayerDataNew
  /\ ButtonInit

NextGen == TurnSetup

SpecGen == InitGen /\ [][NextGen]_vars

(***************************************************************************)
(* The capture resolver on its own: a move was applied and its animation   *)
(* is done.  The mover of any colour stands on any cell, a marble of any   *)
(* other colour on any cell, in its home row or in its base, its owner     *)
(* evading or not; one die or no die is left.                              *)
(***************************************************************************)
\* the dice after a move: one face left, or none left of a roll of doubles or not
DiceAfterMove ==
  { [one |-> None, two |-> 3, doubles |-> FALSE, multiplier |-> 1],
    [one |-> None, two |-> None, doubles |-> FALSE, multiplier |-> 1],
    [one |-> None, two |-> None, doubles |-> TRUE, multiplier |-> 1] }

InitCap ==
  /\ state = "ProcessMove"
  /\ player \in Players
  /\ human_player = player
  /\ selected_marble = 1
  /\ \E q \in Players \ {player}, iA \in 0..(BASE - 1), iB \in 0..BASE,
        ev \in {0, EvadeCaptureTurns} :
       /\ marbles = [p \in Players |->
                       IF p = player THEN Place(<<iA>>)
                       ELSE IF p = q THEN Place(<<iB>>)
                       ELSE Place(<<>>)]
       /\ power_up_status = [p \in Players |->
                               IF p = q
                                 THEN [Status(0, FALSE) EXCEPT !.evade_capture_turns = ev]
                                 ELSE Status(0, FALSE)]
  /\ dice \in DiceAfterMove
  /\ candidates = {}
  /\ possible_moves = <<>>
  /\ move_events = <<>>
  /\ moving = {}
  /\ PowerInit
  /\ current_player_data = CurrentPlayerDataNew
  /\ ButtonInit

NextCap == ProcessMove

SpecCap == InitCap /\ [][NextCap]_vars

(***************************************************************************)
(* power.rs: the power bar.  The f32 power is kept as a whole number of    *)
(* 48ths of a point, the unit in which a move of one cell is scored.       *)
(***************************************************************************)
\* the divisor of the score of a move: units in one point
PowerUnit == 48

MAX_POWER == 10 * PowerUnit

MAX_POWER_UPS == 3

\* the points of a capture, for the captor and against the captive
CapturePoints == 3 * PowerUnit

Max(a, b) == IF a >= b THEN a ELSE b

\* the mutant has no floor at 0
UpdateNoFloor(bar, delta) ==
  LET new_power == bar.power + delta
  IN IF new_power >= MAX_POWER
       THEN [bar |-> [power |-> new_power - MAX_POWER,
                      power_up_count |-> bar.power_up_count + 1],
             awarded |-> TRUE]
       ELSE [bar |-> [bar EXCEPT !.power = new_power], awarded |-> FALSE]

\* the mutant freezes a bar only when it would fill
UpdateThawed(bar, delta) ==
  LET new_power == Max(bar.power + delta, 0)
  IN IF new_power >= MAX_POWER
       THEN IF bar.power_up_count < MAX_POWER_UPS
              THEN [bar |-> [power |-> Max(new_power - MAX_POWER, 0),
                             power_up_count |-> bar.power_up_count + 1],
                    awarded |-> TRUE]
              ELSE [bar |-> bar, awarded |-> FALSE]
       ELSE [bar |-> [bar EXCEPT !.power = new_power], awarded |-> FALSE]

\* PowerBar::update: the bar it leaves and the bool it returns
Update(bar, delta) ==
  LET new_power == Max(bar.power + delta, 0)
  IN IF new_power >= MAX_POWER
       THEN CASE bar.power_up_count \in {0, 1} ->
                   [bar |-> [power |-> Max(new_power - MAX_POWER, 0),
                             power_up_count |-> bar.power_up_count + 1],
                    awarded |-> TRUE]
              [] bar.power_up_count = 2 ->
                   [bar |-> [power |-> 0, power_up_count |-> bar.power_up_count + 1],
                    awarded |-> TRUE]
              [] OTHER -> [bar |-> bar, awarded |-> FALSE]
       ELSE IF bar.power_up_count < MAX_POWER_UPS
              THEN [bar |-> [bar EXCEPT !.power = new_power], awarded |-> FALSE]
              ELSE [bar |-> bar, awarded |-> FALSE]

(***************************************************************************)
(* power.rs: handle_power_events.  A PowerEvent is a record with its kind  *)
(* and its fields.                                                         *)
(***************************************************************************)
\* the distance has no value: unreachable!() or a subtraction below zero
Undefined == -1

\* handle_power_events: the distance of the move of a PowerEvent::Index
Distance(index, prev_index) ==
  IF index = CENTER_INDEX
    THEN CASE prev_index = 54 -> 7
           [] prev_index \in 0..5 -> 5 - prev_index + 1
           [] prev_index \in 6..17 -> 17 - prev_index + 1
           [] prev_index \in 18..29 -> 29 - prev_index + 1
           [] OTHER -> Undefined
    ELSE CASE prev_index = 54 -> index + 1
           [] prev_index = CENTER_INDEX ->
                IF index + 1 >= 41 THEN index + 1 - 41 ELSE Undefined
           [] OTHER -> IF index >= prev_index THEN index - prev_index ELSE Undefined

\* handle_power_events: the points of a move, 10 * distance / 48 at rate 1 or 2
Points(index, prev_index) ==
  (IF index \in 0..47 THEN 1 ELSE 2) * 10 * Distance(index, prev_index)

Capture(captor, captive) == [kind |-> "Capture", captor |-> captor, captive |-> captive]

Index(p, index, prev_index) ==
  [kind |-> "Index", player |-> p, index |-> index, prev_index |-> prev_index]

Use(p, index) == [kind |-> "Use", player |-> p, index |-> index]

\* enum PowerUp
PowerUp == {"RollAgain", "DoubleDice", "EvadeCapture", "SelfJump", "CaptureNearest", "HomeRun"}

\* the action index of the buttons PowerUpOne, PowerUpTwo and PowerUpThree
ButtonIndexes == 0..(MAX_POWER_UPS - 1)

\* PlayerData::update_power
UpdatePower(pd, delta) ==
  IF pd.power = MAX_POWER /\ delta >= 0
    THEN pd
    ELSE LET sum == pd.power + delta
             new_power == IF sum < 0 THEN 0 ELSE IF sum > MAX_POWER THEN MAX_POWER ELSE sum
             multiplier ==
               IF new_power >= 10 * PowerUnit * pd.multiplier THEN pd.multiplier + 1
               ELSE IF new_power < 10 * PowerUnit * (pd.multiplier - 1) THEN pd.multiplier - 1
               ELSE pd.multiplier
         IN [pd EXCEPT !.power = new_power, !.multiplier = multiplier]

\* Vec::remove: the elements after the index move down by one
Remove(seq, index) ==
  [k \in 1..(Len(seq) - 1) |-> IF k <= index THEN seq[k] ELSE seq[k + 1]]

\* PlayerData::use_power_up: the player data it leaves and the Option it
\* returns, <<>> for None
UsePowerUp(pd, index) ==
  IF index < Len(pd.power_ups)
    THEN [pd |-> [UpdatePower(pd, -10 * PowerUnit) EXCEPT
                    !.power_ups = Remove(pd.power_ups, index)],
          result |-> <<pd.power_ups[index + 1]>>]
    ELSE [pd |-> pd, result |-> <<>>]

\* what handle_power_events does not write
boardVars == <<player, human_player, marbles, dice, power_up_status, candidates,
               possible_moves, selected_marble, move_events, moving>>

HandlePowerEvents ==
  /\ power_events # <<>>
  /\ ~power_events_read
  /\ state # "Panic"
  /\ LET event == power_events[1]
     IN CASE event.kind = "Capture" ->
               LET captor == Update(power_bars[event.captor], CapturePoints)
                   bars == [power_bars EXCEPT ![event.captor] = captor.bar]
                   captive == Update(bars[event.captive], -CapturePoints)
               IN /\ power_bars' = [bars EXCEPT ![event.captive] = captive.bar]
                  /\ power_up_events' = power_up_events \o
                       (IF captor.awarded THEN <<event.captor>> ELSE <<>>) \o
                       (IF captive.awarded THEN <<event.captive>> ELSE <<>>)
                  /\ UNCHANGED <<state, players, activate_events>>
          [] event.kind = "Index" ->
               IF Distance(event.index, event.prev_index) = Undefined
                 THEN /\ state' = "Panic"
                      /\ UNCHANGED <<power_bars, power_up_events, players, activate_events>>
                 ELSE LET mover == Update(power_bars[event.player],
                                          Points(event.index, event.prev_index))
                      IN /\ power_bars' = [power_bars EXCEPT ![event.player] = mover.bar]
                         /\ power_up_events' = power_up_events \o
                              (IF mover.awarded THEN <<event.player>> ELSE <<>>)
                         /\ UNCHANGED <<state, players, activate_events>>
          [] event.kind = "Use" ->
               LET used == UsePowerUp(players[event.player], event.index)
               IN IF used.result = <<>>
                    THEN /\ state' = "Panic"
                         /\ UNCHANGED <<power_bars, power_up_events, players,
                                        activate_events>>
                    ELSE /\ players' = [players EXCEPT ![event.player] = used.pd]
                         /\ activate_events' = Append(activate_events, used.result[1][1])
                         /\ power_bars' =
                              [power_bars EXCEPT ![event.player].power_up_count = @ - 1]
                         /\ UNCHANGED <<state, power_up_events>>
  /\ power_events_read' = TRUE
  /\ UNCHANGED power_events
  /\ UNCHANGED boardVars
  /\ UNCHANGED current_player_data
  /\ UNCHANGED buttonVars

(***************************************************************************)
(* power.rs: generate_power_up.  A power-up held is <<kind, button>>, the  *)
(* kind drawn and the action index of the button spawned with it.          *)
(***************************************************************************)
\* the next unused slot: the first index that holds no power-up
NextSlot(power_ups) ==
  IF Len(power_ups) < MAX_POWER_UPS THEN Len(power_ups) ELSE Undefined

\* the mutant stores the power-up in front of those held
StoreFirst(power_ups, i, power_up) == <<<<power_up, i>>>> \o power_ups

\* power_ups[i] = Some((power_up, power_up_button))
Store(power_ups, i, power_up) ==
  [k \in 1..Max(Len(power_ups), i + 1) |->
     IF k = i + 1 THEN <<power_up, i>> ELSE power_ups[k]]

\* the outcomes of the loop over the events: the players' data for every
\* draw of the kinds, and whether the match has come to unreachable!()
RECURSIVE Generated(_, _, _)
Generated(events, pds, kinds) ==
  IF events = <<>>
    THEN {[players |-> pds, unreachable |-> FALSE]}
    ELSE LET p == Head(events)
             i == NextSlot(pds[p].power_ups)
         IN IF i = Undefined
              THEN {[players |-> pds, unreachable |-> TRUE]}
              ELSE UNION {Generated(Tail(events),
                                    [pds EXCEPT ![p].power_ups = Store(@, i, power_up)],
                                    kinds) : power_up \in kinds}

\* generate_power_up, the random sample drawn from kinds
GeneratePowerUp(kinds) ==
  /\ power_up_events # <<>>
  /\ state # "Panic"
  /\ \E outcome \in Generated(power_up_events, players, kinds) :
       /\ players' = outcome.players
       /\ state' = IF outcome.unreachable THEN "Panic" ELSE state
  /\ power_up_events' = <<>>
  /\ UNCHANGED <<power_bars, power_events, power_events_read, activate_events>>
  /\ UNCHANGED boardVars
  /\ UNCHANGED current_player_data
  /\ UNCHANGED buttonVars

(***************************************************************************)
(* resources.rs: PowerUpStatus; power.rs: activate_power_up.               *)
(***************************************************************************)
\* PowerUpStatus::evade_capture
EvadeCapture(s) == [s EXCEPT !.evade_capture_turns = EvadeCaptureTurns]

\* PowerUpStatus::jump_self
JumpSelf(s) == [s EXCEPT !.jump_self_turns = JumpSelfTurns]

\* PowerUpStatus::capture_nearest
CaptureNearest(s) == [s EXCEPT !.capture_nearest = TRUE]

\* PowerUpStatus::home_run
HomeRun(s) == [s EXCEPT !.home_run = TRUE]

\* PowerUpStatus::clear_one_shots
ClearOneShots(s) == [s EXCEPT !.capture_nearest = FALSE, !.home_run = FALSE]

\* the mutant leaves the one-shot flags as they are
TickKeepsOneShots(s) ==
  [s EXCEPT
     !.evade_capture_turns = IF @ > 0 THEN @ - 1 ELSE @,
     !.jump_self_turns = IF @ > 0 THEN @ - 1 ELSE @]

\* PowerUpStatus::tick
Tick(s) ==
  LET cleared == ClearOneShots(s)
  IN [cleared EXCEPT
        !.evade_capture_turns = IF @ > 0 THEN @ - 1 ELSE @,
        !.jump_self_turns = IF @ > 0 THEN @ - 1 ELSE @]

\* the loop of activate_power_up over the events: the status of the acting
\* player, the dice and the state that the last next_state.set leaves
\* the mutant requests TurnSetup for every power-up and doubles the dice of each
RECURSIVE ActivatedAlike(_, _)
ActivatedAlike(events, g) ==
  IF events = <<>>
    THEN g
    ELSE ActivatedAlike(Tail(events),
                        [g EXCEPT !.dice.multiplier = 2, !.state = "TurnSetup"])

RECURSIVE Activated(_, _)
Activated(events, g) ==
  IF events = <<>>
    THEN g
    ELSE LET power_up == Head(events)
             after ==
               CASE power_up = "RollAgain" -> [g EXCEPT !.state = "DiceRoll"]
                 [] power_up = "DoubleDice" ->
                      [g EXCEPT !.dice.multiplier = 2, !.state = "TurnSetup"]
                 [] power_up = "EvadeCapture" ->
                      [g EXCEPT !.status = EvadeCapture(@)]
                 [] power_up = "SelfJump" ->
                      [g EXCEPT !.status = JumpSelf(@), !.state = "TurnSetup"]
                 [] power_up = "CaptureNearest" ->
                      [g EXCEPT !.status = CaptureNearest(@), !.state = "TurnSetup"]
                 [] power_up = "HomeRun" ->
                      [g EXCEPT !.status = HomeRun(@), !.state = "TurnSetup"]
         IN Activated(Tail(events), after)

ActivatePowerUp ==
  /\ activate_events # <<>>
  /\ state # "Panic"
  /\ LET g == Activated(activate_events,
                        [status |-> power_up_status[player], dice |-> dice, state |-> state])
     IN /\ power_up_status' = [power_up_status EXCEPT ![player] = g.status]
        /\ dice' = g.dice
        /\ state' = g.state
  /\ activate_events' = <<>>
  /\ UNCHANGED <<player, human_player, marbles, candidates, possible_moves,
                 selected_marble, move_events, moving>>
  /\ UNCHANGED <<power_bars, power_events, power_events_read, power_up_events, players>>
  /\ UNCHANGED current_player_data
  /\ UNCHANGED buttonVars

(***************************************************************************)
(* The end of a turn: PlayerData::end_of_turn of the acting player, then   *)
(* the turn passes to the next player, who rolls.  A roll is Dice::new of  *)
(* two faces.                                                              *)
(***************************************************************************)
\* PlayerData::end_of_turn: the player data and the status it leaves
EndOfTurnData(pd, s) ==
  [pd |-> [pd EXCEPT
             !.consecutive_empty_turns = IF pd.turn_move_count > 0 THEN 0 ELSE @ + 1,
             !.turn_move_count = 0],
   status |-> Tick(s)]

EndOfTurn ==
  /\ state = "NextPlayer"
  /\ LET ended == EndOfTurnData(players[player], power_up_status[player])
     IN /\ players' = [players EXCEPT ![player] = ended.pd]
        /\ power_up_status' = [power_up_status EXCEPT ![player] = ended.status]
  /\ player' = NextOf(player)
  /\ state' = "DiceRoll"
  /\ UNCHANGED <<human_player, marbles, dice, candidates, possible_moves,
                 selected_marble, move_events, moving>>
  /\ UNCHANGED <<power_bars, power_events, power_events_read, power_up_events,
                 activate_events>>
  /\ UNCHANGED current_player_data
  /\ UNCHANGED buttonVars

(***************************************************************************)
(* The statuses on their own: the acting player, in its turn, with any     *)
(* status and any one power-up about to be activated.                      *)
(***************************************************************************)
\* the values of PowerUpStatus
Statuses ==
  [evade_capture_turns : 0..EvadeCaptureTurns, jump_self_turns : 0..JumpSelfTurns,
   capture_nearest : BOOLEAN, home_run : BOOLEAN]

InitStatus ==
  /\ state = "HumanTurn"
  /\ player \in Players
  /\ human_player = player
  /\ marbles = [p \in Players |-> Place(<<>>)]
  /\ dice \in {DiceNew(6, 3), DiceNew(1, 1)}
  /\ \E s \in Statuses :
       power_up_status = [p \in Players |-> IF p = player THEN s ELSE Status(0, FALSE)]
  /\ candidates = {}
  /\ possible_moves = <<>>
  /\ selected_marble = None
  /\ move_events = <<>>
  /\ moving = {}
  /\ power_bars = [p \in Players |-> PowerBarNew]
  /\ power_events = <<>>
  /\ power_events_read = TRUE
  /\ power_up_events = <<>>
  /\ players = [p \in Players |-> PlayerDataNew]
  /\ activate_events \in {<<>>} \cup {<<power_up>> : power_up \in PowerUp}
  /\ current_player_data = CurrentPlayerDataNew
  /\ ButtonInit

NextStatus ==
  \/ ActivatePowerUp
  \/ ExecuteButtonActions
  \/ EndOfTurn

SpecStatus == InitStatus /\ [][NextStatus]_vars

(***************************************************************************)
(* A turn of the human player with power-ups held: the roll, the moves and *)
(* the clicks on the buttons of the power-ups.  The systems of the power   *)
(* economy run in every frame, so an input finds their buffers drained.    *)
(***************************************************************************)
\* the action indexes of the buttons of the power-ups that a player holds
Buttons(p) == {players[p].power_ups[k][2] : k \in DOMAIN players[p].power_ups}

\* the faces that a roll of the turn shows
RollFaces == {6}

\* a roll: Dice::new of two faces, then the moves are set up
DiceRoll ==
  /\ state = "DiceRoll"
  /\ \E one \in RollFaces, two \in RollFaces : dice' = DiceNew(one, two)
  /\ state' = "TurnSetup"
  /\ UNCHANGED <<player, human_player, marbles, power_up_status, candidates,
                 possible_moves, selected_marble, move_events, moving>>
  /\ UNCHANGED powerVars
  /\ UNCHANGED current_player_data
  /\ UNCHANGED buttonVars

\* a click on the button of a power-up that the human player holds, in its turn
ClickPowerUp ==
  /\ state = "HumanTurn"
  /\ player = human_player
  /\ move_events = <<>>
  /\ Drained
  /\ \E i \in Buttons(player) : power_events' = <<Use(player, i)>>
  /\ power_events_read' = FALSE
  /\ UNCHANGED <<state, power_bars, power_up_events, players, activate_events>>
  /\ UNCHANGED boardVars
  /\ UNCHANGED current_player_data
  /\ UNCHANGED buttonVars

\* the marbles of the human player when the turn starts
TurnLayouts == {<<3, BASE>>, <<40, START_INDEX>>}

\* the rolls that the turn starts with
TurnRolls == {<<6, 3>>, <<1, 2>>}

\* the power-ups held when the turn starts, in the order they were drawn
TurnHeld ==
  {<<>>} \cup {<<power_up>> : power_up \in PowerUp} \cup {<<"RollAgain", "DoubleDice">>}

InitTurn ==
  /\ state = "TurnSetup"
  /\ player = "Red"
  /\ human_player = "Red"
  /\ \E own \in TurnLayouts :
       marbles = [p \in Players |-> IF p = player THEN Place(own) ELSE Place(<<>>)]
  /\ \E roll \in TurnRolls : dice = DiceNew(roll[1], roll[2])
  /\ power_up_status = [p \in Players |-> Status(0, FALSE)]
  /\ candidates = {}
  /\ possible_moves = <<>>
  /\ selected_marble = None
  /\ move_events = <<>>
  /\ moving = {}
  /\ power_events = <<>>
  /\ power_events_read = TRUE
  /\ power_up_events = <<>>
  /\ activate_events = <<>>
  /\ \E held \in TurnHeld :
       /\ players = [p \in Players |->
                       IF p = player
                         THEN [PlayerDataNew EXCEPT
                                 !.power_ups = [k \in DOMAIN held |-> <<held[k], k - 1>>]]
                         ELSE PlayerDataNew]
       /\ power_bars = [p \in Players |->
                          IF p = player
                            THEN [PowerBarNew EXCEPT !.power_up_count = Len(held)]
                            ELSE PowerBarNew]
  /\ current_player_data = CurrentPlayerDataNew
  /\ ButtonInit

NextTurn ==
  \/ DiceRoll
  \/ TurnSetup
  \/ InterpretClickEvent
  \/ MoveEventHandler
  \/ ExecuteButtonActions
  \/ AnimationDone
  \/ ProcessMove
  \/ ClickPowerUp
  \/ HandlePowerEvents
  \/ ActivatePowerUp

SpecTurn == InitTurn /\ [][NextTurn]_vars

(***************************************************************************)
(* The moves the generator can produce, as <<prev_index, index>>: a marble *)
(* on any start, alone on the board, any dice, with and without the        *)
(* home-run flag.                                                          *)
(***************************************************************************)
LegalSteps ==
  UNION { LET moves == CalcPossibleMoves([one |-> a, two |-> b, doubles |-> FALSE,
                                          multiplier |-> m],
                                         Place(<<start>>), Status(0, run))
          IN {<<start, moves[k][2]>> : k \in {j \in DOMAIN moves : moves[j][1] = 1}} :
            start \in 0..BASE, a \in Faces \cup {None}, b \in Faces \cup {None},
            m \in {1, 2}, run \in BOOLEAN }

(***************************************************************************)
(* The scoring of a move on its own: the PowerEvent::Index of any move the *)
(* generator can produce, of any player, is in the buffer of a new game.   *)
(***************************************************************************)
InitPoints ==
  /\ state = "ProcessMove"
  /\ player = "Red"
  /\ human_player = "Red"
  /\ marbles = [p \in Players |-> Place(<<>>)]
  /\ dice = DiceNew(None, None)
  /\ power_up_status = [p \in Players |-> Status(0, FALSE)]
  /\ candidates = {}
  /\ possible_moves = <<>>
  /\ selected_marble = None
  /\ move_events = <<>>
  /\ moving = {}
  /\ power_bars = [p \in Players |-> PowerBarNew]
  /\ \E p \in Players, step \in LegalSteps :
       power_events = <<Index(p, step[2], step[1])>>
  /\ power_events_read = FALSE
  /\ power_up_events = <<>>
  /\ players = [p \in Players |-> PlayerDataNew]
  /\ activate_events = <<>>
  /\ current_player_data = CurrentPlayerDataNew
  /\ ButtonInit

NextPoints == HandlePowerEvents

SpecPoints == InitPoints /\ [][NextPoints]_vars

(***************************************************************************)
(* The power economy on its own: from the empty bars of a new game, the    *)
(* events of the moves of PowerSteps by Red, of captures between Red and   *)
(* Green and of the use of a held power-up are sent and handled in turn.   *)
(***************************************************************************)
\* moves <<prev_index, index>> that score 1.875, 10, 1.25 and 0.625 points
PowerSteps == {<<BASE, 8>>, <<28, LAST_HOME_INDEX>>, <<27, CENTER_INDEX>>, <<CENTER_INDEX, 43>>}

PowerPlayers == {"Red", "Green"}

PowerInputs ==
  {Index("Red", step[2], step[1]) : step \in PowerSteps}
    \cup {Capture(pair[1], pair[2]) :
            pair \in {q \in PowerPlayers \X PowerPlayers : q[1] # q[2]}}
    \cup {Use(p, i) : p \in PowerPlayers, i \in ButtonIndexes}

\* a PowerEvent is sent once the systems have drained the buffers; Use is
\* sent by a click on the button of a power-up held
SendPowerEvent ==
  /\ power_events_read
  /\ power_up_events = <<>>
  /\ activate_events = <<>>
  /\ state # "Panic"
  /\ \E event \in PowerInputs :
       /\ event.kind = "Use" => event.index \in Buttons(event.player)
       /\ power_events' = <<event>>
  /\ power_events_read' = FALSE
  /\ UNCHANGED <<state, power_bars, power_up_events, players, activate_events>>
  /\ UNCHANGED boardVars
  /\ UNCHANGED current_player_data
  /\ UNCHANGED buttonVars

InitPower ==
  /\ state = "ProcessMove"
  /\ player = "Red"
  /\ human_player = "Red"
  /\ marbles = [p \in Players |-> Place(<<>>)]
  /\ dice = DiceNew(None, None)
  /\ power_up_status = [p \in Players |-> Status(0, FALSE)]
  /\ candidates = {}
  /\ possible_moves = <<>>
  /\ selected_marble = None
  /\ move_events = <<>>
  /\ moving = {}
  /\ PowerInit
  /\ current_player_data = CurrentPlayerDataNew
  /\ ButtonInit

\* the kinds that the random sample yields in the runs of the power economy
PowerDraws == {"EvadeCapture"}

NextPower ==
  \/ SendPowerEvent
  \/ HandlePowerEvents
  \/ GeneratePowerUp(PowerDraws)
  \/ ActivatePowerUp

SpecPower == InitPower /\ [][NextPower]_vars

(***************************************************************************)
(* resources.rs: CurrentPlayerData on its own, under any sequence of calls *)
(* of select_move, move_marble and clear, with any marble and any move.    *)
(***************************************************************************)
MaxDestination == 4

\* the moves that select_move is called with
MarbleMoves ==
  {[destination |-> i, distance |-> i, which |-> WhichDie[k]] :
     i \in 1..MaxDestination, k \in DOMAIN WhichDie}

\* CurrentPlayerData::select_move
SelectMove(data, m) ==
  [data EXCEPT !.selected_marble = m[1], !.selected_move = <<m[2]>>]

\* CurrentPlayerData::get_selected_move: the Option it returns, or unreachable
GetSelectedMove(data) ==
  CASE data.selected_marble # None /\ data.selected_move # <<>> ->
         [value |-> <<<<data.selected_marble, data.selected_move[1]>>>>,
          unreachable |-> FALSE]
    [] data.selected_marble = None /\ data.selected_move # <<>> ->
         [value |-> <<>>, unreachable |-> TRUE]
    [] OTHER -> [value |-> <<>>, unreachable |-> FALSE]

\* CurrentPlayerData::move_marble: moved_marble = selected_marble.take()
MoveMarble(data) ==
  [data EXCEPT !.moved_marble = data.selected_marble, !.selected_marble = None]

\* CurrentPlayerData::clear
Clear(data) ==
  [data EXCEPT !.possible_moves = <<>>, !.selected_marble = None,
               !.selected_move = <<>>, !.moved_marble = None]

CallSelectMove ==
  /\ \E e \in Entities, move \in MarbleMoves :
       current_player_data' = SelectMove(current_player_data, <<e, move>>)
  /\ UNCHANGED boardVars
  /\ UNCHANGED <<state, powerVars>>
  /\ UNCHANGED buttonVars

CallMoveMarble ==
  /\ current_player_data' = MoveMarble(current_player_data)
  /\ UNCHANGED boardVars
  /\ UNCHANGED <<state, powerVars>>
  /\ UNCHANGED buttonVars

CallClear ==
  /\ current_player_data' = Clear(current_player_data)
  /\ UNCHANGED boardVars
  /\ UNCHANGED <<state, powerVars>>
  /\ UNCHANGED buttonVars

InitData ==
  /\ state = "HumanTurn"
  /\ player = "Red"
  /\ human_player = "Red"
  /\ marbles = [p \in Players |-> Place(<<>>)]
  /\ dice = DiceNew(6, 3)
  /\ power_up_status = [p \in Players |-> Status(0, FALSE)]
  /\ candidates = {}
  /\ possible_moves = <<>>
  /\ selected_marble = None
  /\ move_events = <<>>
  /\ moving = {}
  /\ PowerInit
  /\ current_player_data = CurrentPlayerDataNew
  /\ ButtonInit

NextData ==
  \/ CallSelectMove
  \/ CallMoveMarble
  \/ CallClear

SpecData == InitData /\ [][NextData]_vars

(***************************************************************************)
(* buttons.rs: the buttons under the mouse.  A frame brings the presses    *)
(* and releases of the left button and the last move of the cursor;        *)
(* mouse_watcher then runs on every button.  enable_ui sets the state of   *)
(* every button from the mouse as it is.                                   *)
(***************************************************************************)
\* ButtonInput<MouseButton> after the events of a frame: nothing, a press, a
\* release, or both in one frame
FrameButtons(pressed) ==
  {[pressed |-> pressed, just_pressed |-> FALSE, just_released |-> FALSE]}
    \cup (IF pressed
            THEN {[pressed |-> FALSE, just_pressed |-> FALSE, just_released |-> TRUE],
                  [pressed |-> TRUE, just_pressed |-> TRUE, just_released |-> TRUE]}
            ELSE {[pressed |-> TRUE, just_pressed |-> TRUE, just_released |-> FALSE],
                  [pressed |-> FALSE, just_pressed |-> TRUE, just_released |-> TRUE]})

\* the mouse after the events of a frame
Frames(m) ==
  {[pressed |-> b.pressed, just_pressed |-> b.just_pressed,
    just_released |-> b.just_released, moved |-> moved,
    cursor |-> IF moved = <<>> THEN m.cursor ELSE moved] :
     b \in FrameButtons(m.pressed), moved \in {<<>>} \cup {<<x>> : x \in Positions}}

\* is_in_bounds
IsInBounds(position, b) == position = b

\* mouse_watcher on button b: the state it leaves the button in and whether
\* it sends the action of the button
Watch(button, b, m) ==
  CASE button = "NotHovered" /\ m.moved # <<>> ->
         [state |-> IF IsInBounds(m.moved[1], b) THEN "Hovered" ELSE button,
          sent |-> FALSE]
    [] button = "Hovered" ->
         [state |-> IF m.just_pressed THEN "Pressed"
                    ELSE IF m.moved # <<>> /\ ~IsInBounds(m.moved[1], b)
                      THEN "NotHovered"
                    ELSE button,
          sent |-> FALSE]
    [] button = "Pressed" ->
         IF m.just_released
           THEN [state |-> "Hovered", sent |-> TRUE]
           ELSE [state |-> IF m.moved # <<>> /\ ~IsInBounds(m.moved[1], b)
                             THEN "PressedNotHovered"
                             ELSE button,
                 sent |-> FALSE]
    [] button = "PressedNotHovered" ->
         [state |-> IF m.just_released THEN "NotHovered"
                    ELSE IF m.moved # <<>> /\ IsInBounds(m.moved[1], b)
                      THEN "Pressed"
                    ELSE button,
          sent |-> FALSE]
    [] OTHER -> [state |-> button, sent |-> FALSE]

\* get_button_state
GetButtonState(cursor_pos, b, mouse_pressed) ==
  IF cursor_pos # <<>>
    THEN IF IsInBounds(cursor_pos[1], b)
           THEN IF mouse_pressed THEN "Pressed" ELSE "Hovered"
           ELSE "NotHovered"
    ELSE "NotHovered"

\* a frame: the events of the mouse, then mouse_watcher
MouseWatcher ==
  /\ \E m \in Frames(mouse) :
       /\ mouse' = m
       /\ button_state' = [b \in ButtonIds |-> Watch(button_state[b], b, m).state]
       /\ action_events' = {b \in ButtonIds : Watch(button_state[b], b, m).sent}
  /\ UNCHANGED boardVars
  /\ UNCHANGED <<state, powerVars, current_player_data>>

\* enable_ui, when the human player's turn comes
EnableUi ==
  /\ button_state' = [b \in ButtonIds |-> GetButtonState(mouse.cursor, b, mouse.pressed)]
  /\ UNCHANGED <<mouse, action_events>>
  /\ UNCHANGED boardVars
  /\ UNCHANGED <<state, powerVars, current_player_data>>

InitButton == InitData

NextButton ==
  \/ MouseWatcher
  \/ EnableUi

SpecButton == InitButton /\ [][NextButton]_vars

(***************************************************************************)
(* Properties of the move generator, stated of the state that TurnSetup    *)
(* leaves: the dice, the marbles and the statuses are those it read.       *)
(***************************************************************************)
Computed == state # "TurnSetup"

Ms == marbles[player]

St == power_up_status[player]

\* the candidates of marble e that use a die
DiceCandidates(e) == {c \in candidates : c[1] = e /\ c[3] # "Neither"}

\* the positions of the legal move <<e, dest, which>> in possible_moves
Entries(e, dest, which) ==
  {k \in DOMAIN possible_moves : possible_moves[k] = <<e, dest, which>>}

\* the candidates that a legal move comes from
PathsOf(move) ==
  {c \in candidates : c[1] = move[1] /\ Last(c[2]) = move[2] /\ c[3] = move[3]}

\* the cells a marble passes and lands on when it goes from start to dest
Traversed(start, dest, which) ==
  IF which = "Neither" THEN {dest}
  ELSE IF start = BASE
    THEN IF dest = CENTER_INDEX THEN (0..5) \cup {CENTER_INDEX} ELSE 0..dest
  ELSE IF start = CENTER_INDEX THEN CENTER_EXIT_INDEX..dest
  ELSE IF dest = CENTER_INDEX
    THEN LET entrance == CHOOSE x \in CENTER_ENTRANCE_INDEXES :
                           /\ x >= start
                           /\ \A y \in CENTER_ENTRANCE_INDEXES : y >= start => x <= y
         IN ((start + 1)..entrance) \cup {CENTER_INDEX}
  ELSE (start + 1)..dest

\* C1: every legal move ends on a track index 0..52 or on CENTER; a move to
\* CENTER steps onto it from a center entrance (5, 17 or 29) and its path holds
\* no home-row index; a marble on the last home slot has no dice move.
C1_Destinations ==
  Computed =>
    /\ \A k \in DOMAIN possible_moves :
         LET m == possible_moves[k]
         IN /\ m[2] \in (0..LAST_HOME_INDEX) \cup {CENTER_INDEX}
            /\ m[2] = CENTER_INDEX =>
                 \A c \in PathsOf(m) :
                   /\ Len(c[2]) >= 2
                   /\ c[2][Len(c[2]) - 1] \in CENTER_ENTRANCE_INDEXES
                   /\ ~ \E i \in 1..Len(c[2]) : InHome(c[2][i])
    /\ \A e \in Entities :
         Ms[e] = LAST_HOME_INDEX =>
           ~ \E k \in DOMAIN possible_moves :
               possible_moves[k][1] = e /\ possible_moves[k][3] # "Neither"

\* C2: while the self-jump counter is 0, no legal move passes or lands on a
\* cell that holds another marble of the acting player.
C2_NoSelfCrossing ==
  Computed /\ St.jump_self_turns = 0 =>
    \A k \in DOMAIN possible_moves :
      LET m == possible_moves[k]
      IN \A o \in Entities \ {m[1]} : Ms[o] \notin Traversed(Ms[m[1]], m[2], m[3])

\* C3: while the self-jump counter is above 0, a candidate is dropped exactly
\* when another marble of the player stands on its destination; marbles on
\* the cells before the destination do not block it.
C3_SelfJumpFilter ==
  Computed /\ St.jump_self_turns > 0 =>
    \A c \in candidates :
      (Entries(c[1], Last(c[2]), c[3]) = {})
        <=> (\E o \in Entities \ {c[1]} : Ms[o] = Last(c[2]))

C3_Witness ==
  /\ Computed
  /\ St.jump_self_turns > 0
  /\ \E c \in candidates :
       /\ Entries(c[1], Last(c[2]), c[3]) # {}
       /\ \E o \in Entities \ {c[1]}, i \in 1..(Len(c[2]) - 1) : Ms[o] = c[2][i]
  /\ \E c \in candidates :
       /\ c[3] # "Neither"
       /\ Entries(c[1], Last(c[2]), c[3]) = {}

\* the ring path 0..n and, when n is 6, the path into the center
BothFromBase(e, n) ==
  {<<e, [i \in 1..(n + 1) |-> i - 1], "Both">>} \cup
  (IF n = 6 THEN {<<e, <<0, 1, 2, 3, 4, 5, CENTER_INDEX>>, "Both">>} ELSE {})

\* C4: for a marble in the base and faces (a, b), the candidates are: [0]
\* with die One iff a is 1 or 6, [0] with die Two iff b is 1 or 6 and, for
\* each face that is 1 or 6, the Both path 0..(other * m), with the path
\* [0..5, CENTER] iff other * m = 6; faces (1, 6) and m = 1 give 5 candidates.
C4_BaseExit ==
  Computed /\ dice.one # None /\ dice.two # None =>
    \A e \in Entities :
      Ms[e] = BASE =>
        /\ DiceCandidates(e) =
             {<<e, <<0>>, "One">> : x \in {dice.one} \cap {1, 6}} \cup
             {<<e, <<0>>, "Two">> : x \in {dice.two} \cap {1, 6}} \cup
             UNION {BothFromBase(e, dice.two * dice.multiplier) : x \in {dice.one} \cap {1, 6}} \cup
             UNION {BothFromBase(e, dice.one * dice.multiplier) : x \in {dice.two} \cap {1, 6}}
        /\ dice.one = 1 /\ dice.two = 6 /\ dice.multiplier = 1 =>
             /\ Cardinality(DiceCandidates(e)) = 5
             /\ {c[2] : c \in DiceCandidates(e)} =
                  {<<0>>, <<0, 1>>, <<0, 1, 2, 3, 4, 5, 6>>, <<0, 1, 2, 3, 4, 5, 53>>}

C4_Witness ==
  /\ Computed
  /\ dice.one = 1 /\ dice.two = 6 /\ dice.multiplier = 1
  /\ \E e \in Entities : Ms[e] = BASE /\ Cardinality(DiceCandidates(e)) = 5

\* the cells CENTER_EXIT .. CENTER_EXIT + n, in order
FromCenterExit(n) == [i \in 1..(n + 1) |-> CENTER_EXIT_INDEX + i - 1]

\* C5: a marble on CENTER has a candidate iff a present face is 1: the
\* single-die candidate [41] of each face that is 1 and, when the other face
\* d is present too, the Both candidate with the path 41..41 + d * m.
C5_CenterExit ==
  Computed =>
    \A e \in Entities :
      Ms[e] = CENTER_INDEX =>
        DiceCandidates(e) =
          {<<e, <<CENTER_EXIT_INDEX>>, "One">> : x \in {dice.one} \cap {1}} \cup
          {<<e, <<CENTER_EXIT_INDEX>>, "Two">> : x \in {dice.two} \cap {1}} \cup
          {<<e, FromCenterExit(dice.two * dice.multiplier), "Both">> :
             x \in {y \in {dice.one} : y = 1 /\ dice.two # None}} \cup
          {<<e, FromCenterExit(dice.one * dice.multiplier), "Both">> :
             x \in {y \in {dice.two} : y = 1 /\ dice.one # None}}

\* C6: every legal move onto CENTER uses both dice, and with only one face
\* left no marble has a legal move onto CENTER.
C6_CenterNeedsBoth ==
  Computed =>
    /\ \A k \in DOMAIN possible_moves :
         possible_moves[k][2] = CENTER_INDEX => possible_moves[k][3] = "Both"
    /\ (dice.one = None \/ dice.two = None) =>
         ~ \E k \in DOMAIN possible_moves : possible_moves[k][2] = CENTER_INDEX

C6_Witness ==
  /\ Computed
  /\ \E k \in DOMAIN possible_moves :
       /\ possible_moves[k][2] = CENTER_INDEX
       /\ possible_moves[k][3] = "Both"
  /\ \E e \in Entities : Ms[e] = 47

\* C7 as stated: the legal moves hold at most one entry for each pair of a
\* marble and a destination.
C7_OnePerDestination ==
  Computed =>
    \A j, k \in DOMAIN possible_moves :
      j # k => ~ /\ possible_moves[j][1] = possible_moves[k][1]
                 /\ possible_moves[j][2] = possible_moves[k][2]

\* C7 as amended: the legal moves hold at most one entry for each triple of a
\* marble, a destination and a die combination.
C7_OnePerDestinationAndDie ==
  Computed =>
    \A j, k \in DOMAIN possible_moves : j # k => possible_moves[j] # possible_moves[k]

C7_Witness ==
  /\ Computed
  /\ \E j, k \in DOMAIN possible_moves :
       /\ possible_moves[j][1] = possible_moves[k][1]
       /\ possible_moves[j][2] = possible_moves[k][2]
       /\ possible_moves[j][3] = "One"
       /\ possible_moves[k][3] = "Two"

\* C8: with two equal faces present, a marble on the track whose single-die
\* destination is on the board keeps one candidate for die One and one for
\* die Two with the same path, and both stay legal when none of the player's
\* marbles stands on that path; faces (5, 5) from index 43 give exactly these
\* two, with the path [44..48].
C8_EqualFacesKeepBoth ==
  Computed /\ dice.one # None /\ dice.one = dice.two =>
    \A e \in Entities :
      LET dest == Ms[e] + dice.one * dice.multiplier
          path == [i \in 1..(dest - Ms[e]) |-> Ms[e] + i]
      IN Ms[e] <= LAST_HOME_INDEX /\ dest <= LAST_HOME_INDEX =>
           /\ <<e, path, "One">> \in candidates
           /\ <<e, path, "Two">> \in candidates
           /\ (\A o \in Entities \ {e} : Ms[o] \notin (Ms[e] + 1)..dest) =>
                /\ Cardinality(Entries(e, dest, "One")) = 1
                /\ Cardinality(Entries(e, dest, "Two")) = 1
           /\ Ms[e] = 43 /\ dice.one = 5 /\ dice.multiplier = 1 =>
                DiceCandidates(e) = {<<e, <<44, 45, 46, 47, 48>>, "One">>,
                                     <<e, <<44, 45, 46, 47, 48>>, "Two">>}

C8_Witness ==
  /\ Computed
  /\ dice.one = 5 /\ dice.two = 5 /\ dice.multiplier = 1
  /\ \E e \in Entities :
       /\ Ms[e] = 43
       /\ Entries(e, 48, "One") # {}
       /\ Entries(e, 48, "Two") # {}

\* C9: while the home-run flag is set, the legal moves hold exactly one
\* Neither move for every marble outside the home row to every home index
\* that none of the player's marbles holds, with or without a die face left,
\* and no other Neither move.
C9_HomeRun ==
  Computed /\ St.home_run =>
    /\ \A e \in Entities, i \in FIRST_HOME_INDEX..LAST_HOME_INDEX :
         Cardinality(Entries(e, i, "Neither")) =
           IF ~InHome(Ms[e]) /\ (\A o \in Entities : Ms[o] # i) THEN 1 ELSE 0
    /\ \A k \in DOMAIN possible_moves :
         possible_moves[k][3] = "Neither" => InHome(possible_moves[k][2])

C9_Witness ==
  /\ Computed
  /\ St.home_run
  /\ IsEmpty(dice)
  /\ \E e, o \in Entities :
       /\ Ms[e] = CENTER_INDEX
       /\ InHome(Ms[o])
       /\ Entries(e, 52, "Neither") # {}

(***************************************************************************)
(* Properties of the human player's turn.                                  *)
(***************************************************************************)
\* the faces that a die combination takes away
Consumed(before, after, which) ==
  /\ after.one = IF which \in {"One", "Both"} THEN None ELSE before.one
  /\ after.two = IF which \in {"Two", "Both"} THEN None ELSE before.two

\* C10: in HumanTurn the legal moves are those of the current dice and
\* marbles; a MoveEvent is a legal move of the selected marble; a step changes
\* a marble or a die only by applying such a move, which puts the selected
\* marble on the move's destination and consumes the move's dice; and a step
\* taken with no MoveEvent pending (a click with no matching legal move, the
\* Done button) changes no marble and no die.
C10_OnlyLegalMoves ==
  /\ [](state = "HumanTurn" =>
          /\ possible_moves = CalcPossibleMoves(dice, Ms, St)
          /\ move_events # <<>> =>
               /\ selected_marble # None
               /\ Entries(selected_marble, move_events[1][1], move_events[1][2]) # {})
  /\ [][state = "HumanTurn" /\ (marbles' # marbles \/ dice' # dice) =>
          /\ selected_marble # None
          /\ \E k \in DOMAIN possible_moves :
               /\ possible_moves[k][1] = selected_marble
               /\ marbles' = [marbles EXCEPT ![player][selected_marble] = possible_moves[k][2]]
               /\ Consumed(dice, dice', possible_moves[k][3])]_vars
  /\ [][state = "HumanTurn" /\ move_events = <<>> =>
          marbles' = marbles /\ dice' = dice]_vars

C10_Witness ==
  /\ state = "WaitForAnimation"
  /\ selected_marble # None
  /\ dice.one = None
  /\ dice.two # None
  /\ Ms[selected_marble] = CENTER_EXIT_INDEX

(***************************************************************************)
(* Properties of capture resolution.  The physical cell of a local index:  *)
(* the ring is shared and a colour's frame is the ring turned by a quarter *)
(* for each turn of the colour; home rows and bases are private; the       *)
(* centre is shared.                                                       *)
(***************************************************************************)
RingLength == FIRST_HOME_INDEX

Cell(p, i) ==
  IF i < FIRST_HOME_INDEX
    THEN <<"ring", (i + (RingLength \div 4) * Turns(p)) % RingLength>>
  ELSE IF InHome(i) THEN <<"home", p, i>>
  ELSE IF i = CENTER_INDEX THEN <<"center">>
  ELSE <<"base", p>>

\* the index of the marble that was just moved
Mover == marbles[player][selected_marble]

Opponents == (Players \ {player}) \X Entities

IndexOf(c) == marbles[c[1]][c[2]]

\* the opponent marbles on the physical cell of the mover
Shared == {c \in Opponents : Cell(c[1], IndexOf(c)) = Cell(player, Mover)}

\* C11: when the mover is outside its home row, capture resolution sends one
\* opponent marble that is on the mover's physical cell to BASE and changes
\* no other index; when no opponent is on that cell, no index changes.
C11_CaptureEvictsOne ==
  [][state = "ProcessMove" /\ ~InHome(Mover) =>
       IF Shared = {}
         THEN marbles' = marbles
         ELSE \E c \in Shared : marbles' = [marbles EXCEPT ![c[1]][c[2]] = BASE]]_vars

C11_Witness ==
  /\ state \in {"TurnSetup", "DiceRoll", "NextPlayer"}
  /\ \E c \in moving : c[1] # player /\ IndexOf(c) = BASE
  /\ \E e \in Entities : marbles[player][e] < FIRST_HOME_INDEX

\* C12: a mover on a home-row index or on CENTER evicts no marble, and an
\* opponent marble in its home row or on CENTER is never sent to BASE.
C12_NoCaptureAtHomeOrCenter ==
  [][state = "ProcessMove" =>
       /\ InHome(Mover) \/ Mover = CENTER_INDEX => marbles' = marbles
       /\ \A c \in Opponents :
            InHome(IndexOf(c)) \/ IndexOf(c) = CENTER_INDEX =>
              marbles'[c[1]][c[2]] = IndexOf(c)]_vars

\* C13: a marble whose owner's evade-capture counter is above 0 is never
\* sent to BASE by capture resolution.
C13_EvadingNeverCaptured ==
  [][state = "ProcessMove" =>
       \A c \in Opponents :
         power_up_status[c[1]].evade_capture_turns > 0 =>
           marbles'[c[1]][c[2]] = IndexOf(c)]_vars

\* a capture has been resolved: the captured marble is on its way to its base
Captured == {c \in moving : c[1] # player /\ IndexOf(c) = BASE}

\* C14: in every reachable state no two marbles of a player have the same
\* index, except in the base.
C14_OwnMarblesApart == \A p \in Players : Apart(marbles[p])

C14_Witness ==
  /\ Captured # {}
  /\ power_up_status[player].jump_self_turns > 0
  /\ \A e \in Entities : marbles[player][e] < BASE
  /\ C14_OwnMarblesApart

\* the pairs of marbles of two players that are on one physical cell
SharedCells ==
  {pair \in (Players \X Entities) \X (Players \X Entities) :
     /\ pair[1][1] # pair[2][1]
     /\ IndexOf(pair[1]) < BASE
     /\ Cell(pair[1][1], IndexOf(pair[1])) = Cell(pair[2][1], IndexOf(pair[2]))}

\* C15: once capture resolution has run, no physical cell holds marbles of
\* two players; while a move waits for it, at most one opponent marble is on
\* the mover's cell and no other cell is shared.
C15_NoSharedCell ==
  IF state \in {"WaitForAnimation", "ProcessMove"}
    THEN /\ Cardinality(Shared) <= 1
         /\ \A pair \in SharedCells :
              <<player, selected_marble>> \in {pair[1], pair[2]}
    ELSE SharedCells = {}

C15_Witness ==
  /\ Captured # {}
  /\ SharedCells = {}
  /\ state \in {"TurnSetup", "DiceRoll", "NextPlayer"}
  /\ \E e \in Entities : marbles[player][e] = CENTER_INDEX

Unread == power_events # <<>> /\ ~power_events_read /\ state # "Panic"

\* the event that handle_power_events has read
Handled == power_events # <<>> /\ power_events_read /\ state # "Panic"

Event == power_events[1]

\* the distance of a move from prev to dest as the rule of the score states it
RuleDistance(prev, dest) ==
  IF dest = CENTER_INDEX /\ prev = BASE THEN 7
  ELSE IF dest = CENTER_INDEX /\ \E x \in CENTER_ENTRANCE_INDEXES : prev <= x
    THEN LET entrance == CHOOSE x \in CENTER_ENTRANCE_INDEXES :
                           /\ prev <= x
                           /\ \A y \in CENTER_ENTRANCE_INDEXES : prev <= y => x <= y
         IN entrance - prev + 1
  ELSE IF prev = BASE THEN dest + 1
  ELSE IF prev = CENTER_INDEX THEN dest + 1 - CENTER_EXIT_INDEX
  ELSE dest - prev

\* rate * 10 * distance / 48 points, in 48ths of a point
RulePoints(prev, dest) ==
  (IF dest < FIRST_HOME_INDEX THEN 1 ELSE 2) * 10 * RuleDistance(prev, dest)

\* the calls update(delta) of the handling of an event, as <<player, delta>>
Updates(event) ==
  CASE event.kind = "Capture" ->
         {<<event.captor, CapturePoints>>, <<event.captive, -CapturePoints>>}
    [] event.kind = "Index" ->
         {<<event.player, Points(event.index, event.prev_index)>>}
    [] OTHER -> {}

\* the awards that the handling of an event signalled to player p
Awards(events, p) == Cardinality({k \in DOMAIN events : events[k] = p})

\* C17: update(delta) with power + delta >= MAX_POWER and 0 or 1 power-ups
\* held leaves power + delta - 10, one more held and one award; with 2 held
\* it leaves power 0, 3 held and one award; with max(power + delta, 0) < 10
\* and fewer than 3 held it leaves max(power + delta, 0), the count and no
\* award; no update awards more than one power-up.
C17_UpdateAwards ==
  [][Unread =>
       \A u \in Updates(Event) :
         LET before == power_bars[u[1]]
             after == power_bars'[u[1]]
             awarded == Awards(power_up_events', u[1])
             sum == before.power + u[2]
         IN /\ sum >= MAX_POWER /\ before.power_up_count \in {0, 1} =>
                 /\ after.power = sum - MAX_POWER
                 /\ after.power_up_count = before.power_up_count + 1
                 /\ awarded = 1
            /\ sum >= MAX_POWER /\ before.power_up_count = 2 =>
                 /\ after.power = 0
                 /\ after.power_up_count = 3
                 /\ awarded = 1
            /\ Max(sum, 0) < MAX_POWER /\ before.power_up_count < 3 =>
                 /\ after.power = Max(sum, 0)
                 /\ after.power_up_count = before.power_up_count
                 /\ awarded = 0
            /\ awarded <= 1]_vars

C17_Witness ==
  /\ Handled
  /\ Event.kind = "Index"
  /\ power_up_events = <<Event.player>>
  /\ power_bars[Event.player].power_up_count = 1
  /\ power_bars[Event.player].power > 0

\* C18: while a player holds 3 power-ups, an update by a positive delta
\* changes neither the power nor the count of the bar and signals no award;
\* the bar changes only when the player uses a power-up.
C18_FullBarFrozen ==
  [][\A p \in Players :
       power_bars[p].power_up_count = 3 =>
         /\ Unread => \A u \in Updates(Event) :
                        u[1] = p /\ u[2] > 0 =>
                          /\ power_bars'[p] = power_bars[p]
                          /\ Awards(power_up_events', p) = 0
         /\ power_bars'[p] # power_bars[p] =>
              /\ Unread
              /\ Event = Use(p, Event.index)
              /\ power_bars'[p] = [power_bars[p] EXCEPT !.power_up_count = 2]]_vars

C18_Witness ==
  /\ Handled
  /\ Event.kind = "Index"
  /\ Points(Event.index, Event.prev_index) > 0
  /\ power_bars[Event.player].power_up_count = 3
  /\ power_up_events = <<>>

C20_MovePoints ==
  [][Unread /\ Event.kind = "Index" =>
       /\ state' # "Panic"
       /\ power_bars' =
            [power_bars EXCEPT ![Event.player] =
               Update(@, RulePoints(Event.prev_index, Event.index)).bar]]_vars

(***************************************************************************)
(* The human player leaves the base with the roll (6, 3) and the move of   *)
(* both dice.                                                              *)
(***************************************************************************)
\* the human player has chosen the move of both dice for a marble in the base
C21_Chosen ==
  /\ state = "HumanTurn"
  /\ player = human_player
  /\ dice = DiceNew(6, 3)
  /\ selected_marble # None
  /\ marbles[player][selected_marble] = BASE
  /\ move_events # <<>>
  /\ move_events[1][2] = "Both"

\* the marble of the human player has arrived on index i with the dice consumed
C21_Arrived(i) ==
  /\ state = "ProcessMove"
  /\ player = human_player
  /\ selected_marble # None
  /\ marbles[player][selected_marble] = i
  /\ \A e \in Entities \ {selected_marble} : marbles[player][e] = BASE
  /\ IsEmpty(dice)
  /\ ~dice.doubles

\* the move of both dice from the base to index i, its award and what follows
C21_EndToEnd(i) ==
  /\ C21_Chosen =>
       /\ marbles'[player][selected_marble] = i
       /\ Capturable(marbles', player, i) = {}
       /\ IsEmpty(dice')
       /\ ~dice'.doubles
       /\ Update(PowerBarNew, Points(i, BASE)).bar.power * 48 = 10 * (i + 1) * PowerUnit
  /\ C21_Arrived(i) =>
       /\ marbles' = marbles
       /\ state' = "NextPlayer"

\* C21 as stated: from the base with the roll (6, 3) the move of both dice
\* ends on the 9th ring cell (index 8) with nothing captured, awards
\* 10 * 9 / 48 points, consumes both dice and leads to NextPlayer
C21_NinthCell == [][C21_EndToEnd(8)]_vars

\* C21 amended: from the base with the roll (6, 3) the move of both dice
\* ends on the 4th ring cell (index 3: the 6 leaves the base, the 3 is
\* walked) with nothing captured, awards 10 * 4 / 48 points, consumes both
\* dice and leads to NextPlayer
C21_FourthCell == [][C21_EndToEnd(3)]_vars

C21_Witness ==
  /\ state = "NextPlayer"
  /\ player = human_player
  /\ IsEmpty(dice)
  /\ \E e \in Entities :
       /\ marbles[player][e] = 3
       /\ \A o \in Entities \ {e} : marbles[player][o] = BASE

\* C22: the power of every player's bar is within 0..MAX_POWER in every
\* reachable state, whatever moves (dice moves at multiplier 1 or 2,
\* home-run moves), captures and uses have been scored
C22_PowerWithinBar ==
  \A p \in Players : power_bars[p].power >= 0 /\ power_bars[p].power <= MAX_POWER

(***************************************************************************)
(* Properties of the power-ups held.  Slot i of a player is index i of     *)
(* PlayerData.power_ups.                                                   *)
(***************************************************************************)
\* slot i of the player data pd holds a power-up
Occupied(pd, i) == i < Len(pd.power_ups)

\* the slots of pd: the power-up and its button, <<>> for an empty slot
Slots(pd) ==
  [i \in ButtonIndexes |-> IF Occupied(pd, i) THEN <<pd.power_ups[i + 1]>> ELSE <<>>]

\* C23: the use of the power-up of an occupied slot lowers the count of
\* power-ups held by exactly one, leaves that slot empty and leaves the
\* power as it was
C23_UseEmptiesSlot ==
  [][Unread /\ Event.kind = "Use" /\ Occupied(players[Event.player], Event.index) =>
       /\ power_bars'[Event.player].power_up_count =
            power_bars[Event.player].power_up_count - 1
       /\ ~Occupied(players'[Event.player], Event.index)
       /\ power_bars'[Event.player].power = power_bars[Event.player].power
       /\ players'[Event.player].power = players[Event.player].power]_vars

\* C24: the use of a slot that holds no power-up is a no-op: nothing is
\* activated, the count, the power, the slots, the dice and the state stay
\* as they were, and no fatal error is raised
C24_EmptySlotNoOp ==
  [][Unread /\ Event.kind = "Use" /\ ~Occupied(players[Event.player], Event.index) =>
       /\ activate_events' = activate_events
       /\ power_bars' = power_bars
       /\ players' = players
       /\ dice' = dice
       /\ state' = state
       /\ state' # "Panic"]_vars

\* the awards signalled to player p that generate_power_up has not yet read
Pending(p) == Awards(power_up_events, p)

\* the lowest index of an empty slot of pd
LowestEmpty(pd) ==
  CHOOSE i \in ButtonIndexes :
    ~Occupied(pd, i) /\ \A j \in ButtonIndexes : j < i => Occupied(pd, j)

Activating(power_up) ==
  /\ activate_events = <<power_up>>
  /\ state # "Panic"
  /\ activate_events' = <<>>

\* C26: the activation of EvadeCapture, and likewise of SelfJump, sets its
\* counter to 3 when the counter is 0 and leaves a counter above 0 as it is
C26_ActivationIdempotent ==
  [][/\ Activating("EvadeCapture") =>
          power_up_status'[player].evade_capture_turns =
            IF power_up_status[player].evade_capture_turns = 0
              THEN 3 ELSE power_up_status[player].evade_capture_turns
     /\ Activating("SelfJump") =>
          power_up_status'[player].jump_self_turns =
            IF power_up_status[player].jump_self_turns = 0
              THEN 3 ELSE power_up_status[player].jump_self_turns]_vars

\* the turn of the acting player ends
TurnEnds == state = "NextPlayer" /\ player' = NextOf(player)

\* C27: the tick of the end of a turn clears capture_nearest and home_run
\* whatever they were, lowers each of the two counters by exactly 1 when it
\* is above 0 and leaves it 0 when it is 0; so a timed effect activated at 0
\* and not activated again is still on after two ticks and off after three
C27_Tick ==
  [][/\ TurnEnds =>
          LET s == power_up_status[player]
              t == power_up_status'[player]
          IN /\ ~t.capture_nearest
             /\ ~t.home_run
             /\ t.evade_capture_turns =
                  IF s.evade_capture_turns > 0 THEN s.evade_capture_turns - 1 ELSE 0
             /\ t.jump_self_turns =
                  IF s.jump_self_turns > 0 THEN s.jump_self_turns - 1 ELSE 0
     /\ \A s \in Statuses :
          /\ s.evade_capture_turns = 0 =>
               /\ Tick(Tick(EvadeCapture(s))).evade_capture_turns > 0
               /\ Tick(Tick(Tick(EvadeCapture(s)))).evade_capture_turns = 0
          /\ s.jump_self_turns = 0 =>
               /\ Tick(Tick(JumpSelf(s))).jump_self_turns > 0
               /\ Tick(Tick(Tick(JumpSelf(s)))).jump_self_turns = 0]_vars

C27_Witness ==
  /\ state = "DiceRoll"
  /\ \E p \in Players :
       /\ player = NextOf(p)
       /\ players[p].consecutive_empty_turns = 1
       /\ power_up_status[p].evade_capture_turns = EvadeCaptureTurns - 1
       /\ power_up_status[p].jump_self_turns = 0

(***************************************************************************)
(* Properties of a turn with power-ups.                                    *)
(***************************************************************************)
\* C29: in every reachable state in which both faces are consumed the
\* multiplier of the dice is 1, whatever rolls, uses of the dice and
\* activations of DoubleDice came before
C29_EmptyDiceMultiplierOne == IsEmpty(dice) => dice.multiplier = 1

\* both dice of the roll (6, 3), doubled, have taken a marble from 3 to 21
C29_Witness ==
  /\ IsEmpty(dice)
  /\ ~dice.doubles
  /\ dice.multiplier = 1
  /\ state = "WaitForAnimation"
  /\ \E e \in Entities : marbles[player][e] = 3 + 2 * (6 + 3)

\* the moves of possible_moves, as a set
Moves(moves) == {moves[k] : k \in DOMAIN moves}

\* in the state TurnSetup, before the moves are computed anew: the last move
\* applied was a home-run move, one that the list of the last set-up offered
\* with Neither, and with no die, to the cell where its marble now stands
HomeRunApplied ==
  /\ state = "TurnSetup"
  /\ \E e \in Entities :
       /\ InHome(marbles[player][e])
       /\ <<e, marbles[player][e], "Neither">> \in Moves(possible_moves)
       /\ \A which \in {"One", "Two", "Both"} :
            <<e, marbles[player][e], which>> \notin Moves(possible_moves)

\* C28: the home-run flag is valid for one decision: once a home-run move
\* (Neither) has been applied, the next TurnSetup of the turn generates no
\* Neither move, so that no second home-run move is applied
C28_HomeRunOnce ==
  [][HomeRunApplied =>
       \A move \in Moves(possible_moves') : move[3] # "Neither"]_vars

(***************************************************************************)
(* Properties of the phases.                                               *)
(***************************************************************************)
\* C30: when TurnSetup completes, the next state is ComputerTurn if and only
\* if the acting player is not the human player's colour, and HumanTurn
\* otherwise; one of the two is entered
C30_TurnSetupComplete ==
  [][state = "TurnSetup" /\ state' # "TurnSetup" =>
       /\ state' \in {"ComputerTurn", "HumanTurn"}
       /\ state' = "ComputerTurn" <=> player # human_player
       /\ state' = "HumanTurn" <=> player = human_player]_vars

C30_Witness ==
  /\ state = "ComputerTurn"
  /\ player # human_player
  /\ possible_moves # <<>>

\* every marble of the player is in the home row
AllHome(ms) == \A e \in DOMAIN ms : InHome(ms[e])

\* the number of faces of the dice not yet used
FacesLeft(d) == (IF d.one # None THEN 1 ELSE 0) + (IF d.two # None THEN 1 ELSE 0)

\* C31: ProcessMove sets GameEnd if and only if every marble of the acting
\* player is in the home row 48..52; otherwise it sets TurnSetup when exactly
\* one face is unused (also after a roll of doubles), and with no face left
\* it sets DiceRoll after a roll of doubles and NextPlayer after any other roll.
C31_ProcessMoveBranches ==
  [][ProcessMove =>
       /\ (state' = "GameEnd") <=> AllHome(marbles[player])
       /\ (~AllHome(marbles[player]) /\ FacesLeft(dice) = 1) => state' = "TurnSetup"
       /\ (~AllHome(marbles[player]) /\ FacesLeft(dice) = 0) =>
            state' = IF dice.doubles THEN "DiceRoll" ELSE "NextPlayer"]_vars

\* ProcessMove has sent a roll of doubles with one face unused to TurnSetup
C31_Witness ==
  /\ state = "TurnSetup"
  /\ dice.doubles
  /\ FacesLeft(dice) = 1
  /\ ~AllHome(marbles[player])

\* C32: ProcessMove is never evaluated for a player who has not won with both
\* faces of the dice unused, whatever move was applied before it (a home-run
\* move of die combination Neither included), so it always sets one of
\* GameEnd, TurnSetup, DiceRoll and NextPlayer.
C32_NoFatalBranch ==
  [][ProcessMove =>
       /\ AllHome(marbles[player]) \/ FacesLeft(dice) < 2
       /\ state' \in {"GameEnd", "TurnSetup", "DiceRoll", "NextPlayer"}]_vars

\* C33: every turn passes through EndTurn: no step taken in ProcessMove or in
\* HumanTurn leads directly to NextPlayer or to DiceRoll, the EndTurn phase
\* comes first.
C33_ThroughEndTurn ==
  [][(state = "ProcessMove" \/ state = "HumanTurn") =>
       (state' # "NextPlayer" /\ state' # "DiceRoll")]_vars

\* the phase an activation of the power-up requests, from the phase it is activated in
Requested(power_up, from) ==
  CASE power_up = "RollAgain" -> "DiceRoll"
    [] power_up \in {"DoubleDice", "SelfJump", "CaptureNearest", "HomeRun"} -> "TurnSetup"
    [] OTHER -> from

\* C34: the activation of a power-up requests DiceRoll for RollAgain, TurnSetup
\* for DoubleDice, SelfJump, CaptureNearest and HomeRun, and no phase for
\* EvadeCapture; only DoubleDice changes the dice, to the multiplier 2 with both
\* faces as they were; no activation changes a marble index or a power bar.
C34_ActivationFrame ==
  [][(ActivatePowerUp /\ Len(activate_events) = 1) =>
       /\ state' = Requested(activate_events[1], state)
       /\ dice' = IF activate_events[1] = "DoubleDice"
                    THEN [dice EXCEPT !.multiplier = 2]
                    ELSE dice
       /\ marbles' = marbles
       /\ power_bars' = power_bars
       /\ \A p \in Players : players'[p].power = players[p].power]_vars

\* DoubleDice was activated on a roll whose faces are both unused
C34_Witness ==
  /\ state = "TurnSetup"
  /\ dice.multiplier = 2
  /\ FacesLeft(dice) = 2
  /\ activate_events = <<>>

\* C35: the scoring of every move the generator produces is defined: the
\* distance from the marble's index to the destination of the move never takes
\* the unreachable branch and none of its subtractions goes below zero.
C35_DistanceDefined ==
  \A k \in DOMAIN possible_moves :
    Distance(possible_moves[k][2], marbles[player][possible_moves[k][1]]) # Undefined

\* the track indexes of the ring and of the home row
RingIndexes == START_INDEX..(FIRST_HOME_INDEX - 1)
HomeIndexes == FIRST_HOME_INDEX..LAST_HOME_INDEX

\* the cells of a set of track indexes in the frame of colour p
FrameCells(p, indexes) == {RotateCoords(p, BOARD[i + 1]) : i \in indexes}

\* the ring and the home row of each colour, as cells of the shared board
RingCells == [p \in Players |-> FrameCells(p, RingIndexes)]
HomeCells == [p \in Players |-> FrameCells(p, HomeIndexes)]
CenterCell == [p \in Players |-> RotateCoords(p, BOARD[CENTER_INDEX + 1])]

\* the cells of BOARD are pairwise distinct
BoardDistinct == \A i, j \in DOMAIN BOARD : i # j => BOARD[i] # BOARD[j]

\* a clockwise quarter turn takes ring index i to ring index (i + 12) mod 48
QuarterTurn ==
  \A i \in RingIndexes : Rotate(1, BOARD[i + 1]) = BOARD[((i + 12) % 48) + 1]

\* C36: the cells of BOARD are pairwise distinct; a clockwise quarter turn
\* takes the cell of ring index i to the cell of ring index (i + 12) mod 48, so
\* the ring is one set of 48 cells in the frame of the acting colour and in
\* the frame of every colour; CENTER maps to itself; a home-row cell of the
\* acting colour is no ring cell, not the center and no home-row cell of
\* another colour.
C36_BoardConsistent ==
  /\ Len(BOARD) = 54
  /\ BoardDistinct
  /\ QuarterTurn
  /\ Cardinality(RingCells[player]) = 48
  /\ CenterCell[player] = BOARD[CENTER_INDEX + 1]
  /\ \A q \in Players :
       /\ RingCells[player] = RingCells[q]
       /\ HomeCells[player] \cap (RingCells[q] \cup {CenterCell[q]}) = {}
       /\ player # q => HomeCells[player] \cap HomeCells[q] = {}

\* the mover stands on a ring cell that is the cell of another ring index,
\* a whole number of quarter turns away, in the frame of an opponent on it
C36_Witness ==
  /\ state = "ProcessMove"
  /\ Mover \in RingIndexes
  /\ \E c \in Opponents :
       /\ IndexOf(c) = (Mover + 12 * ((Turns(player) - Turns(c[1]) + 4) % 4)) % 48
       /\ IndexOf(c) # Mover
       /\ IsSameIndex(player, Mover, c[1], IndexOf(c))

\* C37: in every state of CurrentPlayerData a selected move is present only
\* if a selected marble is present, so get_selected_move never takes its
\* (None, Some) branch, after any sequence of select_move, move_marble and
\* clear.
C37_MoveOnlyWithMarble ==
  /\ current_player_data.selected_move # <<>> =>
       current_player_data.selected_marble # None
  /\ ~GetSelectedMove(current_player_data).unreachable

\* the button is held: pressed, over its bounds or dragged off them
Held(button) == button \in {"Pressed", "PressedNotHovered"}

\* C38: a button sends its ActionEvent only in a frame where it is Pressed
\* and the left button is released; a button becomes held only by a press
\* made while it is Hovered, so that a press while Hovered precedes every
\* event sent; a release while the button is PressedNotHovered sends nothing
\* and leaves it NotHovered; a button that is NotHovered never becomes Pressed
\* in one step.
C38_ButtonProtocol ==
  [][\A b \in ButtonIds :
       /\ (MouseWatcher /\ b \in action_events') =>
            button_state[b] = "Pressed" /\ mouse'.just_released
       /\ (~Held(button_state[b]) /\ Held(button_state'[b])) =>
            button_state[b] = "Hovered" /\ mouse'.just_pressed
       /\ (MouseWatcher /\ button_state[b] = "PressedNotHovered" /\ mouse'.just_released) =>
            b \notin action_events' /\ button_state'[b] = "NotHovered"
       /\ button_state[b] = "NotHovered" => button_state'[b] # "Pressed"]_vars

====
